---- MODULE Spec2Model ----
(***************************************************************************)
(* A model of the tricorder metrics registry: the namespace of directories *)
(* and metrics (registration and lookup), and the concurrent distribution. *)
(* Path strings are sequences of one-character strings, names are the      *)
(* segments newPathSpec cuts out of them, and listEntry, directory and     *)
(* metric objects live in three heaps indexed by allocation order (Nil is  *)
(* the nil pointer).                                                       *)
(***************************************************************************)
EXTENDS Integers, Sequences, FiniteSets, TLC

VARIABLES
    entries,      \* the listEntry objects, in allocation order
    dirs,         \* the directory objects; dirs[1] is the root
    metrics,      \* the metric objects
    last,         \* the call that has just returned: arguments and results
    pieces,       \* distribution.pieces, the buckets of its bucketer
    dist,         \* distribution.counts, total, min, max and count
    lock,         \* distribution.lock: the writer and the readers holding it
    pc,           \* where each thread is in its call
    loc,          \* the local variables of each thread's call
    committed,    \* the values added, in the order the Adds held the lock
    addsCalled,   \* the number of Add calls made
    addsReturned, \* the number of Add calls that have returned
    store         \* the application's variables that the metrics are read from

nsVars == <<entries, dirs, metrics, last, store>>

distVars == <<pieces, dist, lock, committed, addsCalled, addsReturned>>

thrVars == <<pc, loc>>

vars == <<entries, dirs, metrics, last, pieces, dist, lock, pc, loc,
          committed, addsCalled, addsReturned, store>>

\* ------------------------------------------------------------------ bounds

\* Longest path string handed to an operation.
MaxPathLen == 3

\* Most listEntry objects the namespace is grown to.
MaxEntries == 2

\* The number of threads calling into one distribution, or into the namespace.
NumThreads == 2

\* Most Add calls made on the distribution.
MaxAdds == 2

\* The values added are 0..MaxValue.
MaxValue == 2

\* The significand of a float has Precision bits (float64 has 53).
Precision == 3

\* Most Add calls made on the distribution that one caller fills.
MaxSamples == 4

\* The values that caller adds are 0..MaxSample.
MaxSample == 6

\* Most listEntry objects of the namespace that is looked up and traversed.
MaxNodes == 3

\* The characters of path strings: the separator, a blank and two letters.
Chars == {"/", " ", "a", "b"}

\* The path strings handed to the operations: the strings of at most MaxPathLen
\* characters in which every segment is one character long, so that the names
\* are "a" and "b" and a blank segment is one that newPathSpec drops.
PathStrings ==
    { s \in UNION {[1..n -> Chars] : n \in 0..MaxPathLen} :
        \A i \in 1..(Len(s) - 1) : s[i] = "/" \/ s[i + 1] = "/" }

\* The (unit, description) pairs handed to RegisterMetric.
MetricArgs ==
    { [unit |-> "None", description |-> "d1"],
      [unit |-> "Second", description |-> "d2"] }

\* A pointer to an int64, a pointer to a struct, a func with two results. var
\* names the variable of the application the pointer points to (the func
\* returns), numIn and numOut are the parameters and results of a func.
Sources ==
    { [shape |-> "ptr", type |-> "int64", numOut |-> 0, numIn |-> 0, var |-> "i"],
      [shape |-> "ptr", type |-> "struct", numOut |-> 0, numIn |-> 0, var |-> "x"],
      [shape |-> "func", type |-> "float32", numOut |-> 2, numIn |-> 0, var |-> "f"] }

\* The (source, unit, description) triples handed to RegisterMetric: the
\* supported source with each pair, the unsupported ones with one pair.
RegisterArgs ==
    { [value |-> v, unit |-> a.unit, description |-> a.description] :
        v \in {x \in Sources : x.type = "int64"}, a \in MetricArgs }
    \cup
    { [value |-> v, unit |-> "None", description |-> "d1"] :
        v \in {x \in Sources : x.type # "int64"} }

Nil == 0

ErrNil == "nil"

ErrPathInUse == "tricorder: Path in use"

Panic == "panic"

\* ------------------------------------------------------------- path parser

RECURSIVE Split(_)
\* strings.Split(path, "/"): the pieces between the separators, empty ones kept.
Split(s) ==
    IF \A i \in 1..Len(s) : s[i] # "/"
    THEN <<s>>
    ELSE LET i == CHOOSE k \in 1..Len(s) :
                      s[k] = "/" /\ \A j \in 1..(k - 1) : s[j] # "/"
         IN <<SubSeq(s, 1, i - 1)>> \o Split(SubSeq(s, i + 1, Len(s)))

RECURSIVE TrimSpace(_)
\* strings.TrimSpace: leading and trailing blanks removed.
TrimSpace(s) ==
    IF s = <<>> THEN s
    ELSE IF Head(s) = " " THEN TrimSpace(Tail(s))
    ELSE IF s[Len(s)] = " " THEN TrimSpace(SubSeq(s, 1, Len(s) - 1))
    ELSE s

RECURSIVE FilterParts(_)
FilterParts(parts) ==
    IF parts = <<>> THEN <<>>
    ELSE IF TrimSpace(Head(parts)) = <<>> THEN FilterParts(Tail(parts))
    ELSE <<Head(parts)>> \o FilterParts(Tail(parts))

\* newPathSpec that keeps the empty pieces of the split.
newPathSpec_KeepsEmpty(path) == Split(path)

newPathSpec(path) == FilterParts(Split(path))

Empty(p) == Len(p) = 0

Dir(p) == SubSeq(p, 1, Len(p) - 1)

Base(p) == p[Len(p)]

\* ---------------------------------------------------------------- namespace

\* d.contents[name], nil when the map has no such key.
MapGet(contents, name) ==
    IF name \in DOMAIN contents THEN contents[name] ELSE Nil

\* d.contents[name] = e
MapPut(contents, name, e) ==
    [x \in (DOMAIN contents) \cup {name} |->
        IF x = name THEN e ELSE contents[x]]

newDirectory == [contents |-> [x \in {} |-> Nil], enclosingListEntry |-> Nil]

root == 1

\* The three heaps as one value, so that the operations are functions of it.
NS == [entries |-> entries, dirs |-> dirs, metrics |-> metrics]

getPrimitiveType(t) ==
    CASE t = "timePtr" -> [valType |-> "Time", isValAPointer |-> TRUE, ok |-> TRUE]
      [] t = "time" -> [valType |-> "Time", isValAPointer |-> FALSE, ok |-> TRUE]
      [] t = "bool" -> [valType |-> "Bool", isValAPointer |-> FALSE, ok |-> TRUE]
      [] t \in {"int", "int8", "int16", "int32", "int64"} ->
            [valType |-> "Int", isValAPointer |-> FALSE, ok |-> TRUE]
      [] t \in {"uint", "uint8", "uint16", "uint32", "uint64"} ->
            [valType |-> "Uint", isValAPointer |-> FALSE, ok |-> TRUE]
      [] t \in {"float32", "float64"} ->
            [valType |-> "Float", isValAPointer |-> FALSE, ok |-> TRUE]
      [] t = "string" -> [valType |-> "String", isValAPointer |-> FALSE, ok |-> TRUE]
      [] OTHER -> [valType |-> "", isValAPointer |-> FALSE, ok |-> FALSE]

\* val is the reflect.Value kept: the func, or the variable the pointer points
\* to (v.Elem()), which is read when the value is, and the zero Value (no
\* variable) for a distribution; dist is the distribution, "" for nil.
\* ok = FALSE stands for the panic of newValue.
newValue(spec) ==
    IF spec.shape = "dist"
    THEN [val |-> [var |-> "", numIn |-> 0], dist |-> spec.var, valType |-> "Dist",
          isValAPointer |-> FALSE, isfunc |-> FALSE, ok |-> TRUE]
    ELSE IF spec.shape = "func"
    THEN IF spec.numOut # 1
         THEN [val |-> [var |-> "", numIn |-> 0], dist |-> "", valType |-> "",
               isValAPointer |-> FALSE, isfunc |-> TRUE, ok |-> FALSE]
         ELSE LET p == getPrimitiveType(spec.type)
              IN [val |-> [var |-> spec.var, numIn |-> spec.numIn], dist |-> "",
                  valType |-> p.valType, isValAPointer |-> p.isValAPointer,
                  isfunc |-> TRUE, ok |-> p.ok]
    ELSE LET p == getPrimitiveType(spec.type)
         IN [val |-> [var |-> spec.var, numIn |-> 0], dist |-> "",
             valType |-> p.valType, isValAPointer |-> p.isValAPointer,
             isfunc |-> FALSE, ok |-> p.ok]

\* createDirIfNeeded giving an entry that holds a metric a directory as well.
createDirIfNeeded_AddsRole(ns, d, name) ==
    LET n == MapGet(ns.dirs[d].contents, name)
    IN IF n = Nil
       THEN LET newDir == Len(ns.dirs) + 1
                newListEntry == Len(ns.entries) + 1
            IN [ns |-> [ns EXCEPT
                     !.entries = Append(@, [Name |-> name, Metric |-> Nil,
                                            Directory |-> newDir,
                                            parent |-> ns.dirs[d].enclosingListEntry]),
                     !.dirs = Append(
                         [@ EXCEPT ![d].contents = MapPut(@, name, newListEntry)],
                         [newDirectory EXCEPT !.enclosingListEntry = newListEntry])],
                result |-> newDir, err |-> ErrNil]
       ELSE IF ns.entries[n].Directory # Nil
       THEN [ns |-> ns, result |-> ns.entries[n].Directory, err |-> ErrNil]
       ELSE LET newDir == Len(ns.dirs) + 1
            IN [ns |-> [ns EXCEPT
                     !.entries = [@ EXCEPT ![n].Directory = newDir],
                     !.dirs = Append(@, [newDirectory EXCEPT !.enclosingListEntry = n])],
                result |-> newDir, err |-> ErrNil]

\* createDirIfNeeded binding the name to a new directory whatever it held.
createDirIfNeeded_Replaces(ns, d, name) ==
    LET n == MapGet(ns.dirs[d].contents, name)
    IN IF n # Nil /\ ns.entries[n].Directory # Nil
       THEN [ns |-> ns, result |-> ns.entries[n].Directory, err |-> ErrNil]
       ELSE LET newDir == Len(ns.dirs) + 1
                newListEntry == Len(ns.entries) + 1
            IN [ns |-> [ns EXCEPT
                     !.entries = Append(@, [Name |-> name, Metric |-> Nil,
                                            Directory |-> newDir,
                                            parent |-> ns.dirs[d].enclosingListEntry]),
                     !.dirs = Append(
                         [@ EXCEPT ![d].contents = MapPut(@, name, newListEntry)],
                         [newDirectory EXCEPT !.enclosingListEntry = newListEntry])],
                result |-> newDir, err |-> ErrNil]

\* createDirIfNeeded without the branch for a directory that already exists.
createDirIfNeeded_NoExisting(ns, d, name) ==
    LET n == MapGet(ns.dirs[d].contents, name)
    IN IF n = Nil
       THEN LET newDir == Len(ns.dirs) + 1
                newListEntry == Len(ns.entries) + 1
            IN [ns |-> [ns EXCEPT
                     !.entries = Append(@, [Name |-> name, Metric |-> Nil,
                                            Directory |-> newDir,
                                            parent |-> ns.dirs[d].enclosingListEntry]),
                     !.dirs = Append(
                         [@ EXCEPT ![d].contents = MapPut(@, name, newListEntry)],
                         [newDirectory EXCEPT !.enclosingListEntry = newListEntry])],
                result |-> newDir, err |-> ErrNil]
       ELSE [ns |-> ns, result |-> Nil, err |-> ErrPathInUse]

createDirIfNeeded(ns, d, name) ==
    LET n == MapGet(ns.dirs[d].contents, name)
    IN IF n = Nil
       THEN LET newDir == Len(ns.dirs) + 1
                newListEntry == Len(ns.entries) + 1
            IN [ns |-> [ns EXCEPT
                     !.entries = Append(@, [Name |-> name, Metric |-> Nil,
                                            Directory |-> newDir,
                                            parent |-> ns.dirs[d].enclosingListEntry]),
                     !.dirs = Append(
                         [@ EXCEPT ![d].contents = MapPut(@, name, newListEntry)],
                         [newDirectory EXCEPT !.enclosingListEntry = newListEntry])],
                result |-> newDir, err |-> ErrNil]
       ELSE IF ns.entries[n].Directory # Nil
       THEN [ns |-> ns, result |-> ns.entries[n].Directory, err |-> ErrNil]
       ELSE [ns |-> ns, result |-> Nil, err |-> ErrPathInUse]
\* storeMetric binding the name to the new entry before it tests whether the
\* name was bound.
storeMetric_BindsFirst(ns, d, name, m) ==
    LET n == MapGet(ns.dirs[d].contents, name)
        newListEntry == Len(ns.entries) + 1
        newMetric == Len(ns.metrics) + 1
    IN [ns |-> [ns EXCEPT
             !.entries = Append(@, [Name |-> name, Metric |-> newMetric,
                                    Directory |-> Nil,
                                    parent |-> ns.dirs[d].enclosingListEntry]),
             !.metrics = Append(@, [m EXCEPT !.enclosingListEntry = newListEntry]),
             !.dirs = [@ EXCEPT ![d].contents = MapPut(@, name, newListEntry)]],
        err |-> IF n # Nil THEN ErrPathInUse ELSE ErrNil]

\* storeMetric without the test for a name that is already bound.
storeMetric_Overwrite(ns, d, name, m) ==
    LET newListEntry == Len(ns.entries) + 1
        newMetric == Len(ns.metrics) + 1
    IN [ns |-> [ns EXCEPT
             !.entries = Append(@, [Name |-> name, Metric |-> newMetric,
                                    Directory |-> Nil,
                                    parent |-> ns.dirs[d].enclosingListEntry]),
             !.metrics = Append(@, [m EXCEPT !.enclosingListEntry = newListEntry]),
             !.dirs = [@ EXCEPT ![d].contents = MapPut(@, name, newListEntry)]],
        err |-> ErrNil]

storeMetric(ns, d, name, m) ==
    LET n == MapGet(ns.dirs[d].contents, name)
    IN IF n # Nil
       THEN [ns |-> ns, err |-> ErrPathInUse]
       ELSE LET newListEntry == Len(ns.entries) + 1
                newMetric == Len(ns.metrics) + 1
            IN [ns |-> [ns EXCEPT
                     !.entries = Append(@, [Name |-> name, Metric |-> newMetric,
                                            Directory |-> Nil,
                                            parent |-> ns.dirs[d].enclosingListEntry]),
                     !.metrics = Append(@, [m EXCEPT !.enclosingListEntry = newListEntry]),
                     !.dirs = [@ EXCEPT ![d].contents = MapPut(@, name, newListEntry)]],
                err |-> ErrNil]

RECURSIVE registerDirectoryFrom_DropsErr(_, _, _)
\* registerDirectory returning the directory reached so far, and no error, when
\* createDirIfNeeded fails.
registerDirectoryFrom_DropsErr(ns, result, path) ==
    IF path = <<>>
    THEN [ns |-> ns, result |-> result, err |-> ErrNil]
    ELSE LET r == createDirIfNeeded(ns, result, Head(path))
         IN IF r.err # ErrNil
            THEN [ns |-> ns, result |-> result, err |-> ErrNil]
            ELSE registerDirectoryFrom_DropsErr(r.ns, r.result, Tail(path))

RECURSIVE registerDirectoryFrom(_, _, _)
\* The loop of registerDirectory with `result` the directory reached so far.
registerDirectoryFrom(ns, result, path) ==
    IF path = <<>>
    THEN [ns |-> ns, result |-> result, err |-> ErrNil]
    ELSE LET r == createDirIfNeeded(ns, result, Head(path))
         IN IF r.err # ErrNil
            THEN r
            ELSE registerDirectoryFrom(r.ns, r.result, Tail(path))

registerDirectory(ns, d, path) == registerDirectoryFrom(ns, d, path)

\* registerMetric storing the metric in the receiver instead of the directory
\* that registerDirectory returned.
registerMetric_InReceiver(ns, d, path, value, unit, description) ==
    IF Empty(path)
    THEN [ns |-> ns, err |-> ErrPathInUse]
    ELSE LET r == registerDirectory(ns, d, Dir(path))
         IN IF r.err # ErrNil
            THEN [ns |-> r.ns, err |-> r.err]
            ELSE LET v == newValue(value)
                 IN IF ~v.ok
                    THEN [ns |-> r.ns, err |-> Panic]
                    ELSE storeMetric(r.ns, d, Base(path),
                             [Description |-> description, Unit |-> unit,
                              Value |-> v, enclosingListEntry |-> Nil])

registerMetric(ns, d, path, value, unit, description) ==
    IF Empty(path)
    THEN [ns |-> ns, err |-> ErrPathInUse]
    ELSE LET r == registerDirectory(ns, d, Dir(path))
         IN IF r.err # ErrNil
            THEN [ns |-> r.ns, err |-> r.err]
            ELSE LET v == newValue(value)
                 IN IF ~v.ok
                    THEN [ns |-> r.ns, err |-> Panic]
                    ELSE storeMetric(r.ns, r.result, Base(path),
                             [Description |-> description, Unit |-> unit,
                              Value |-> v, enclosingListEntry |-> Nil])

RECURSIVE getDirectory_PastMetric(_, _, _)
\* A getDirectory that stops at a name bound to a metric and returns the
\* directory it has reached.
getDirectory_PastMetric(ns, d, path) ==
    IF path = <<>>
    THEN d
    ELSE LET n == MapGet(ns.dirs[d].contents, Head(path))
         IN IF n = Nil
            THEN Nil
            ELSE IF ns.entries[n].Directory = Nil
            THEN d
            ELSE getDirectory_PastMetric(ns, ns.entries[n].Directory, Tail(path))

RECURSIVE getDirectory(_, _, _)
getDirectory(ns, d, path) ==
    IF path = <<>>
    THEN d
    ELSE LET n == MapGet(ns.dirs[d].contents, Head(path))
         IN IF n = Nil \/ ns.entries[n].Directory = Nil
            THEN Nil
            ELSE getDirectory(ns, ns.entries[n].Directory, Tail(path))

getDirectoryOrMetric(ns, d, path) ==
    IF Empty(path)
    THEN [dir |-> d, metric |-> Nil]
    ELSE LET dir == getDirectory(ns, d, Dir(path))
         IN IF dir = Nil
            THEN [dir |-> Nil, metric |-> Nil]
            ELSE LET n == MapGet(ns.dirs[dir].contents, Base(path))
                 IN IF n = Nil
                    THEN [dir |-> Nil, metric |-> Nil]
                    ELSE [dir |-> ns.entries[n].Directory,
                          metric |-> ns.entries[n].Metric]

GetDirectory(ns, d, relativePath) == getDirectory(ns, d, newPathSpec(relativePath))

GetMetric(ns, d, relativePath) ==
    getDirectoryOrMetric(ns, d, newPathSpec(relativePath)).metric

GetDirectoryOrMetric(ns, d, relativePath) ==
    getDirectoryOrMetric(ns, d, newPathSpec(relativePath))

\* The byte of a character of a path string.
CharCode(c) ==
    CASE c = " " -> 32
      [] c = "/" -> 47
      [] c = "a" -> 97
      [] c = "b" -> 98

RECURSIVE StringLess(_, _)
\* s < t on strings: byte by byte, a proper prefix being the lesser.
StringLess(s, t) ==
    IF t = <<>> THEN FALSE
    ELSE IF s = <<>> THEN TRUE
    ELSE IF Head(s) = Head(t) THEN StringLess(Tail(s), Tail(t))
    ELSE CharCode(Head(s)) < CharCode(Head(t))

\* byName.Less on two listEntry objects.
Less(ns, e1, e2) == StringLess(ns.entries[e1].Name, ns.entries[e2].Name)

RECURSIVE sortListEntries_Descending(_, _)
\* A sort that puts the greatest name first.
sortListEntries_Descending(ns, listEntries) ==
    IF listEntries = {} THEN <<>>
    ELSE LET m == CHOOSE x \in listEntries :
                      \A y \in listEntries \ {x} : Less(ns, y, x)
         IN <<m>> \o sortListEntries_Descending(ns, listEntries \ {m})

RECURSIVE sortListEntries(_, _)
\* sort.Sort(byName(listEntries)): the entries in ascending order of name. The
\* entries come from one map, so no two have the same name.
sortListEntries(ns, listEntries) ==
    IF listEntries = {} THEN <<>>
    ELSE LET m == CHOOSE x \in listEntries :
                      \A y \in listEntries \ {x} : Less(ns, x, y)
         IN <<m>> \o sortListEntries(ns, listEntries \ {m})

\* directory.List: the values of d.contents, collected in the order the map
\* yields them, then sorted.
List(ns, d) ==
    sortListEntries(ns, {ns.dirs[d].contents[x] : x \in DOMAIN ns.dirs[d].contents})

ErrSink == "sink error"

\* The collectors handed to a traversal: failAt = k > 0 returns an error from
\* its k-th Collect, failAt = 0 never does; got holds the metrics it was given.
Collectors == {[failAt |-> k, got |-> <<>>] : k \in 0..2}

\* collector.Collect(m)
Collect(c, m) ==
    [collector |-> [c EXCEPT !.got = Append(@, m)],
     err |-> IF Len(c.got) + 1 = c.failAt THEN ErrSink ELSE ErrNil]

RECURSIVE GetAllMetricsFrom_NoDirs(_, _, _, _)
\* A traversal that does not go into the directories.
GetAllMetricsFrom_NoDirs(ns, list, i, c) ==
    IF i > Len(list)
    THEN [collector |-> c, err |-> ErrNil]
    ELSE LET entry == ns.entries[list[i]]
             r == IF entry.Directory # Nil
                  THEN [collector |-> c, err |-> ErrNil]
                  ELSE Collect(c, entry.Metric)
         IN IF r.err # ErrNil
            THEN r
            ELSE GetAllMetricsFrom_NoDirs(ns, list, i + 1, r.collector)

RECURSIVE GetAllMetricsFrom_GoesOn(_, _, _, _)
\* A traversal that tests the error of Collect only, not the error of the
\* traversal of a directory.
GetAllMetricsFrom_GoesOn(ns, list, i, c) ==
    IF i > Len(list)
    THEN [collector |-> c, err |-> ErrNil]
    ELSE LET entry == ns.entries[list[i]]
             r == IF entry.Directory # Nil
                  THEN GetAllMetricsFrom_GoesOn(ns, List(ns, entry.Directory), 1, c)
                  ELSE Collect(c, entry.Metric)
         IN IF r.err # ErrNil /\ entry.Directory = Nil
            THEN r
            ELSE GetAllMetricsFrom_GoesOn(ns, list, i + 1, r.collector)

RECURSIVE GetAllMetricsFrom(_, _, _, _)
\* The loop of GetAllMetrics from the i-th entry of d.List() on, c being the
\* collector as the calls made so far have left it.
GetAllMetricsFrom(ns, list, i, c) ==
    IF i > Len(list)
    THEN [collector |-> c, err |-> ErrNil]
    ELSE LET entry == ns.entries[list[i]]
             r == IF entry.Directory # Nil
                  THEN GetAllMetricsFrom(ns, List(ns, entry.Directory), 1, c)
                  ELSE Collect(c, entry.Metric)
         IN IF r.err # ErrNil
            THEN r
            ELSE GetAllMetricsFrom(ns, list, i + 1, r.collector)

GetAllMetrics(ns, d, c) == GetAllMetricsFrom(ns, List(ns, d), 1, c)

\* GetAllMetricsByPath handing nothing to the collector when the path is that of
\* a metric.
GetAllMetricsByPath_DirsOnly(ns, d, relativePath, c) ==
    LET r == GetDirectoryOrMetric(ns, d, relativePath)
    IN IF r.metric # Nil
       THEN [collector |-> c, err |-> ErrNil]
       ELSE IF r.dir # Nil
       THEN GetAllMetrics(ns, r.dir, c)
       ELSE [collector |-> c, err |-> ErrNil]

GetAllMetricsByPath(ns, d, relativePath, c) ==
    LET r == GetDirectoryOrMetric(ns, d, relativePath)
    IN IF r.metric # Nil
       THEN Collect(c, r.metric)
       ELSE IF r.dir # Nil
       THEN GetAllMetrics(ns, r.dir, c)
       ELSE [collector |-> c, err |-> ErrNil]

RECURSIVE pathFromUp(_, _, _)
\* The first loop of pathFrom: the names from current up to, and without, the
\* entry `from`, and the entry the loop ended at.
pathFromUp(ns, current, from) ==
    IF current # Nil /\ current # from
    THEN LET r == pathFromUp(ns, ns.entries[current].parent, from)
         IN [names |-> <<ns.entries[current].Name>> \o r.names, current |-> r.current]
    ELSE [names |-> <<>>, current |-> current]


\* pathFrom leaving the names in the order it collected them.
pathFrom_NoSwap(ns, n, fromDir) ==
    LET from == ns.dirs[fromDir].enclosingListEntry
        r == pathFromUp(ns, n, from)
    IN IF r.current # from THEN <<>> ELSE r.names

\* listEntry.pathFrom; a nil pathSpec is the empty one.
pathFrom(ns, n, fromDir) ==
    LET from == ns.dirs[fromDir].enclosingListEntry
        r == pathFromUp(ns, n, from)
    IN IF r.current # from THEN <<>>
           ELSE [i \in 1..Len(r.names) |-> r.names[Len(r.names) + 1 - i]]

RECURSIVE String(_)
\* pathSpec.String: strings.Join(p, "/")
String(p) ==
    IF p = <<>> THEN <<>>
    ELSE IF Len(p) = 1 THEN p[1]
    ELSE p[1] \o <<"/">> \o String(Tail(p))

absPath(ns, n) == <<"/">> \o String(pathFrom(ns, n, root))

\* metric.AbsPath and directory.AbsPath
MetricAbsPath(ns, m) == absPath(ns, ns.metrics[m].enclosingListEntry)

DirectoryAbsPath(ns, d) == absPath(ns, ns.dirs[d].enclosingListEntry)

\* ------------------------------------------------------------- distribution

\* A stream function has panicked: no size, no stream.
StreamPanic == [panic |-> TRUE, size |-> 0, stream |-> <<>>]

\* The panic of a bucketer constructor: no bucketer is returned.
NoBucketer == <<>>

\* A slot of the slice of pieces that no piece was put in.
NilPiece == [nil |-> TRUE]

RECURSIVE exponentialValues(_, _, _, _)
\* The loop of newExponentialBucketerStream from its i-th round on: current is
\* sent, then multiplied by scale, for as long as i < n.
exponentialValues(current, scale, i, n) ==
    IF i >= n THEN <<>>
    ELSE <<current>> \o exponentialValues(current * scale, scale, i + 1, n)

\* The announced size and the values sent until the channel is closed.
newExponentialBucketerStream(count, start, scale) ==
    IF count < 2 \/ start <= 0 \/ scale <= 1 THEN StreamPanic
    ELSE [panic |-> FALSE, size |-> count - 1,
          stream |-> exponentialValues(start, scale, 0, count - 1)]

RECURSIVE linearValues(_, _, _, _)
\* The loop of newLinearBucketerStream from its i-th round on: current is sent,
\* then increased by increment, for as long as i < n.
linearValues(current, increment, i, n) ==
    IF i >= n THEN <<>>
    ELSE <<current>> \o linearValues(current + increment, increment, i + 1, n)

\* newLinearBucketerStream that announces count values.
newLinearBucketerStream_AnnouncesCount(count, start, increment) ==
    IF count < 2 \/ increment <= 0 THEN StreamPanic
    ELSE [panic |-> FALSE, size |-> count,
          stream |-> linearValues(start, increment, 0, count - 1)]

newLinearBucketerStream(count, start, increment) ==
    IF count < 2 \/ increment <= 0 THEN StreamPanic
    ELSE [panic |-> FALSE, size |-> count - 1,
          stream |-> linearValues(start, increment, 0, count - 1)]

newArbitraryBucketerStream(endpoints) ==
    IF Len(endpoints) = 0 THEN StreamPanic
    ELSE [panic |-> FALSE, size |-> Len(endpoints), stream |-> endpoints]

\* newBucketerFromStream that sets no Last flag on the piece that ends the list.
newBucketerFromStream_NoLast(streamSize, stream) ==
    [i \in 1..(streamSize + 1) |->
        IF i = 1
        THEN [Start |-> 0, End |-> stream[1], First |-> TRUE, Last |-> FALSE]
        ELSE IF i = Len(stream) + 1
        THEN [Start |-> stream[Len(stream)], End |-> 0, First |-> FALSE, Last |-> FALSE]
        ELSE [Start |-> stream[i - 1], End |-> stream[i], First |-> FALSE, Last |-> FALSE]]

\* The buckets newBucketerFromStream builds from the streamed cut points: a
\* slice of streamSize + 1 nil slots, the first piece from the first value
\* received (0.0 from a channel closed at once), one piece for every further
\* value and the last piece in the slot after them. NoBucketer stands for the
\* panic of streamSize < 1 and for that of an index past the end of the slice;
\* a slot no piece is put in stays nil.
newBucketerFromStream(streamSize, stream) ==
    IF streamSize < 1 THEN NoBucketer
    ELSE LET lower == IF stream = <<>> THEN 0 ELSE stream[1]
             idx == IF stream = <<>> THEN 1 ELSE Len(stream)
         IN IF idx > streamSize THEN NoBucketer
            ELSE [i \in 1..(streamSize + 1) |->
                    IF i = 1
                    THEN [Start |-> 0, End |-> lower, First |-> TRUE, Last |-> FALSE]
                    ELSE IF i = idx + 1
                    THEN [Start |-> IF stream = <<>> THEN 0 ELSE stream[Len(stream)],
                          End |-> 0, First |-> FALSE, Last |-> TRUE]
                    ELSE IF i <= idx
                    THEN [Start |-> stream[i - 1], End |-> stream[i],
                          First |-> FALSE, Last |-> FALSE]
                    ELSE NilPiece]

newDistribution(bucketerPieces) ==
    [counts |-> [i \in 1..Len(bucketerPieces) |-> 0],
     total |-> 0, min |-> 0, max |-> 0, count |-> 0]

RECURSIVE Search_Inclusive(_, _, _, _)
\* The search with the test value <= End in place of value < End.
Search_Inclusive(bucketerPieces, value, i, j) ==
    IF i < j
    THEN LET h == (i + j) \div 2
         IN IF ~(value <= bucketerPieces[h + 1].End)
            THEN Search_Inclusive(bucketerPieces, value, h + 1, j)
            ELSE Search_Inclusive(bucketerPieces, value, i, h)
    ELSE i

RECURSIVE Search(_, _, _, _)
\* sort.Search: the least index in [i, j) at which the value is below the end
\* of the bucket, found by bisection; indices count from 0.
Search(bucketerPieces, value, i, j) ==
    IF i < j
    THEN LET h == (i + j) \div 2
         IN IF ~(value < bucketerPieces[h + 1].End)
            THEN Search(bucketerPieces, value, h + 1, j)
            ELSE Search(bucketerPieces, value, i, h)
    ELSE i

findDistributionIndex(bucketerPieces, value) ==
    Search(bucketerPieces, value, 0, Len(bucketerPieces) - 1)

Min2(a, b) == IF b < a THEN b ELSE a

Max2(a, b) == IF b > a THEN b ELSE a

RECURSIVE Pow2(_)
Pow2(k) == IF k = 0 THEN 1 ELSE 2 * Pow2(k - 1)

\* a / b rounded to the nearest integer, a tie going to the even one.
RoundHalfEven(a, b) ==
    LET fl == a \div b
        r == a - fl * b
    IN IF 2 * r > b \/ (2 * r = b /\ fl % 2 = 1) THEN fl + 1 ELSE fl

RECURSIVE Normalize(_, _)
\* The fraction n / d, d a power of two, in lowest terms.
Normalize(n, d) ==
    IF d > 1 /\ n % 2 = 0 THEN Normalize(n \div 2, d \div 2)
    ELSE [num |-> n, den |-> d]

RECURSIVE ScaleDown(_, _, _)
\* The least exponent k' >= k with n / d below 2^(Precision + k').
ScaleDown(n, d, k) ==
    IF n < d * Pow2(k) * Pow2(Precision) THEN k ELSE ScaleDown(n, d, k + 1)

RECURSIVE ScaleUp(_, _, _)
\* The least exponent k' >= k with n / d at least 2^(Precision - 1 - k').
ScaleUp(n, d, k) ==
    IF n * Pow2(k) >= d * Pow2(Precision - 1) THEN k ELSE ScaleUp(n, d, k + 1)

\* The floating-point number nearest to n / d (n >= 0, d > 0): a significand of
\* Precision bits, round to nearest, ties to even, as every float64 operation
\* rounds its exact result. Floats are fractions num / den, den a power of two.
\* The values added, the counts and the running total are integers that a
\* float holds exactly, and are kept as integers.
Round(n, d) ==
    IF n = 0
    THEN [num |-> 0, den |-> 1]
    ELSE IF n >= d * Pow2(Precision)
    THEN LET k == ScaleDown(n, d, 0)
         IN [num |-> RoundHalfEven(n, d * Pow2(k)) * Pow2(k), den |-> 1]
    ELSE LET k == ScaleUp(n, d, 0)
         IN Normalize(RoundHalfEven(n * Pow2(k), d), Pow2(k))

RECURSIVE valueIndexToPieceFrom_Strict(_, _, _, _)
\* The loop of valueIndexToPiece going on only while valueIdx is more than the
\* count of the bucket past its start (> for >=).
valueIndexToPieceFrom_Strict(counts, valueIdx2, pieceIdx, start2) ==
    IF pieceIdx >= Len(counts)
    THEN [pieceIdx |-> pieceIdx, frac |-> Round(0, 1), ok |-> FALSE]
    ELSE IF valueIdx2 - start2 > 2 * counts[pieceIdx + 1]
    THEN valueIndexToPieceFrom_Strict(counts, valueIdx2, pieceIdx + 1,
                                      start2 + 2 * counts[pieceIdx + 1])
    ELSE [pieceIdx |-> pieceIdx,
          frac |-> IF counts[pieceIdx + 1] = 0 THEN Round(0, 1)
                   ELSE Round(valueIdx2 - start2, 2 * counts[pieceIdx + 1]),
          ok |-> TRUE]

RECURSIVE valueIndexToPieceFrom(_, _, _, _)
\* The loop of valueIndexToPiece; valueIdx2 and start2 are twice valueIdx and
\* startValueIdxInPiece, half-integers that a float holds exactly; the division
\* that gives frac rounds. Running past the last count is the index-out-of-range
\* panic (ok = FALSE).
valueIndexToPieceFrom(counts, valueIdx2, pieceIdx, start2) ==
    IF pieceIdx >= Len(counts)
    THEN [pieceIdx |-> pieceIdx, frac |-> Round(0, 1), ok |-> FALSE]
    ELSE IF valueIdx2 - start2 >= 2 * counts[pieceIdx + 1]
    THEN valueIndexToPieceFrom(counts, valueIdx2, pieceIdx + 1,
                               start2 + 2 * counts[pieceIdx + 1])
    ELSE [pieceIdx |-> pieceIdx,
          frac |-> Round(valueIdx2 - start2, 2 * counts[pieceIdx + 1]),
          ok |-> TRUE]

valueIndexToPiece(counts, valueIdx2) ==
    valueIndexToPieceFrom(counts, valueIdx2, 0, -1)

\* (1.0 - frac) * min + frac * max, each of the four operations rounding.
interpolate(min, max, frac) ==
    LET oneMinus == Round(frac.den - frac.num, frac.den)
        low == Round(oneMinus.num * min, oneMinus.den)
        high == Round(frac.num * max, frac.den)
    IN Round(low.num * high.den + high.num * low.den, low.den * high.den)
\* calculateMedian that interpolates between the ends of the bucket, without
\* bringing them within the smallest and the largest value added.
calculateMedian_NoClamp(bucketerPieces, d) ==
    IF d.count = 1
    THEN [num |-> d.min, den |-> 1]
    ELSE LET r == valueIndexToPiece(d.counts, d.count - 1)
             pieceLen == Len(bucketerPieces)
         IN IF ~r.ok
            THEN [num |-> 0, den |-> 0]
            ELSE IF r.pieceIdx = 0
            THEN interpolate(d.min, bucketerPieces[1].End, r.frac)
            ELSE IF r.pieceIdx = pieceLen - 1
            THEN interpolate(bucketerPieces[pieceLen].Start, d.max, r.frac)
            ELSE interpolate(bucketerPieces[r.pieceIdx + 1].Start,
                             bucketerPieces[r.pieceIdx + 1].End, r.frac)

calculateMedian(bucketerPieces, d) ==
    IF d.count = 1
    THEN [num |-> d.min, den |-> 1]
    ELSE LET r == valueIndexToPiece(d.counts, d.count - 1)
             pieceLen == Len(bucketerPieces)
         IN IF ~r.ok
            THEN [num |-> 0, den |-> 0]
            ELSE IF r.pieceIdx = 0
            THEN interpolate(d.min, Min2(bucketerPieces[1].End, d.max), r.frac)
            ELSE IF r.pieceIdx = pieceLen - 1
            THEN interpolate(Max2(bucketerPieces[pieceLen].Start, d.min), d.max,
                             r.frac)
            ELSE interpolate(Max2(bucketerPieces[r.pieceIdx + 1].Start, d.min),
                             Min2(bucketerPieces[r.pieceIdx + 1].End, d.max),
                             r.frac)
\* buildSnapshot without the case of a distribution that holds no value.
buildSnapshot_NoEmptyCase(bucketerPieces, d, bdn) ==
    [Min |-> d.min, Max |-> d.max,
     Average |-> Round(d.total, d.count),
     Median |-> calculateMedian(bucketerPieces, d),
     Count |-> d.count, Breakdown |-> bdn]

\* The snapshot struct Snapshot builds from the copied breakdown and the fields
\* of d; Average and Median are floats, fractions num / den.
buildSnapshot(bucketerPieces, d, bdn) ==
    IF d.count = 0
    THEN [Min |-> 0, Max |-> 0, Average |-> [num |-> 0, den |-> 1],
          Median |-> [num |-> 0, den |-> 1], Count |-> d.count, Breakdown |-> bdn]
    ELSE [Min |-> d.min, Max |-> d.max,
          Average |-> Round(d.total, d.count),
          Median |-> calculateMedian(bucketerPieces, d),
          Count |-> d.count, Breakdown |-> bdn]

\* The min / max update of Add that never raises max after the first value.
addMinMax_MinOnly(d, value) ==
    IF d.count = 0
    THEN [d EXCEPT !.min = value, !.max = value]
    ELSE IF value < d.min
    THEN [d EXCEPT !.min = value]
    ELSE d

\* The min / max update of Add: the if / else if / else if on d.count, d.min
\* and d.max.
addMinMax(d, value) ==
    IF d.count = 0
    THEN [d EXCEPT !.min = value, !.max = value]
    ELSE IF value < d.min
    THEN [d EXCEPT !.min = value]
    ELSE IF value > d.max
    THEN [d EXCEPT !.max = value]
    ELSE d

\* ------------------------------------------------------------------- values

\* time.Time{}, and the time n seconds after the Unix epoch.
ZeroTime == [zero |-> TRUE]

TimeOf(n) == [zero |-> FALSE, unix |-> n]

\* The variables of the application before it writes them: a bool, an int64, a
\* uint32, a float64, a string, a time.Time and a *time.Time (<<>> is the nil
\* pointer, <<t>> a pointer to the time t).
InitStore ==
    [b |-> FALSE, i |-> 0, u |-> 0, f |-> 0, s |-> <<>>, tm |-> ZeroTime,
     tp |-> <<>>]

\* What a read comes back with: a panic, or a result.
Panicked == [panic |-> TRUE]

Returned(x) == [panic |-> FALSE, result |-> x]

\* v.val.Call(nil)[0]: the func returns what its variable holds now; reflect
\* panics when the func takes arguments.
Call(val, st) ==
    IF val.numIn # 0 THEN Panicked ELSE Returned(st[val.var])

\* value.evaluate that reads the variable as it was before any write.
evaluate_Initial(v, st) ==
    IF ~v.isfunc THEN Returned(InitStore[v.val.var]) ELSE Call(v.val, InitStore)

\* value.evaluate: the variable behind v.val as it is now, or the result of
\* calling the func now.
evaluate(v, st) ==
    IF ~v.isfunc THEN Returned(st[v.val.var]) ELSE Call(v.val, st)

\* The shape AsBool, AsInt, AsUint, AsFloat and AsString share: panic unless
\* valType is the type read, then evaluate.
asScalar(v, st, valType) ==
    IF v.valType # valType THEN Panicked ELSE evaluate(v, st)

AsBool(v, st) == asScalar(v, st, "Bool")

AsInt(v, st) == asScalar(v, st, "Int")

AsUint(v, st) == asScalar(v, st, "Uint")

AsFloat(v, st) == asScalar(v, st, "Float")

AsString(v, st) == asScalar(v, st, "String")

\* value.AsTime that takes the pointer to name a time whether or not it is nil.
AsTime_NoNilCheck(v, st) ==
    IF v.valType # "Time" THEN Panicked
    ELSE LET val == evaluate(v, st)
         IN IF val.panic THEN Panicked
            ELSE IF v.isValAPointer
            THEN IF val.result = <<>> THEN Panicked ELSE Returned(val.result[1])
            ELSE val

AsTime(v, st) ==
    IF v.valType # "Time" THEN Panicked
    ELSE LET val == evaluate(v, st)
         IN IF val.panic THEN Panicked
            ELSE IF v.isValAPointer
            THEN IF val.result = <<>> THEN Returned(ZeroTime)
                 ELSE Returned(val.result[1])
            ELSE val

AsDistribution(v, st) ==
    IF v.valType # "Dist" THEN Panicked ELSE Returned(v.dist)

RECURSIVE FormatUint(_)
\* strconv.FormatUint(n, 10)
FormatUint(n) ==
    IF n < 10
    THEN <<(<<"0", "1", "2", "3", "4", "5", "6", "7", "8", "9">>)[n + 1]>>
    ELSE FormatUint(n \div 10) \o FormatUint(n % 10)

\* strconv.FormatInt(n, 10); strconv.FormatFloat(f, 'f', -1, 64) of a float
\* that is a whole number gives the same digits.
FormatInt(n) == IF n < 0 THEN <<"-">> \o FormatUint(0 - n) ELSE FormatUint(n)

\* fmt.Sprintf("%d.%09d", t.Unix(), t.Nanosecond()), the times of the model
\* being whole seconds; "0.000000000" for the zero time.
TimeText(t) ==
    (IF t.zero THEN <<"0">> ELSE FormatInt(t.unix))
        \o <<".", "0", "0", "0", "0", "0", "0", "0", "0", "0">>

AsTextString(v, st) ==
    LET r == CASE v.valType = "Bool" -> AsBool(v, st)
               [] v.valType = "Int" -> AsInt(v, st)
               [] v.valType = "Uint" -> AsUint(v, st)
               [] v.valType = "Float" -> AsFloat(v, st)
               [] v.valType = "String" -> AsString(v, st)
               [] v.valType = "Time" -> AsTime(v, st)
               [] OTHER -> Panicked
    IN IF r.panic THEN Panicked
       ELSE CASE v.valType = "Bool" ->
                    Returned(IF r.result THEN <<"t", "r", "u", "e">>
                             ELSE <<"f", "a", "l", "s", "e">>)
              [] v.valType = "Int" -> Returned(FormatInt(r.result))
              [] v.valType = "Uint" -> Returned(FormatUint(r.result))
              [] v.valType = "Float" -> Returned(FormatInt(r.result))
              [] v.valType = "String" -> Returned(<<"\"">> \o r.result \o <<"\"">>)
              [] v.valType = "Time" -> Returned(TimeText(r.result))

\* t.UTC().Format(layout) is kept as the layout and the time it is applied to.
AsHtmlString(v, st) ==
    IF v.valType = "Time"
    THEN LET r == AsTime(v, st)
         IN IF r.panic THEN Panicked
            ELSE Returned([layout |-> "2006-01-02T15:04:05.999999999Z",
                           utc |-> r.result])
    ELSE AsTextString(v, st)

\* asRPCRanges: the count of every bucket, with no Lower on the first bucket
\* and no Upper on the last.
asRPCRanges(ranges) ==
    [k \in 1..Len(ranges) |->
        [Count |-> ranges[k].Count,
         Lower |-> IF ranges[k].bucketPiece.First THEN <<>>
                   ELSE <<ranges[k].bucketPiece.Start>>,
         Upper |-> IF ranges[k].bucketPiece.Last THEN <<>>
                   ELSE <<ranges[k].bucketPiece.End>>]]

\* value.AsRPCValue: the kind and the one field of messages.Value that is set;
\* bucketerPieces and d are the distribution a value of type Dist stands for.
AsRPCValue(v, st, bucketerPieces, d) ==
    IF v.valType \in {"Bool", "Int", "Uint", "Float", "String"}
    THEN LET r == asScalar(v, st, v.valType)
         IN IF r.panic THEN Panicked
            ELSE Returned([Kind |-> v.valType, field |-> v.valType \o "Value",
                           value |-> r.result])
    ELSE IF v.valType = "Time"
    THEN LET r == AsTextString(v, st)
         IN IF r.panic THEN Panicked
            ELSE Returned([Kind |-> v.valType, field |-> "StringValue",
                           value |-> r.result])
    ELSE IF v.valType = "Dist"
    THEN LET snapshot == buildSnapshot(bucketerPieces, d,
                            [k \in 1..Len(bucketerPieces) |->
                                [bucketPiece |-> bucketerPieces[k],
                                 Count |-> d.counts[k]]])
         IN Returned([Kind |-> v.valType, field |-> "DistributionValue",
                      value |-> [Min |-> snapshot.Min, Max |-> snapshot.Max,
                                 Average |-> snapshot.Average,
                                 Median |-> snapshot.Median,
                                 Count |-> snapshot.Count,
                                 Ranges |-> asRPCRanges(snapshot.Breakdown)]])
    ELSE Panicked

\* ------------------------------------------------------------------ actions


\* No call is in progress: the caller is free to make its next call.
Idle == last.op = "none"

Threads == 1..NumThreads

NoLocals == [op |-> "none"]

InitNS ==
    /\ entries = <<>>
    /\ dirs = <<newDirectory>>
    /\ metrics = <<>>
    /\ last = [op |-> "none"]
    /\ store = InitStore

InitThreads ==
    /\ pc = [t \in Threads |-> "idle"]
    /\ loc = [t \in Threads |-> NoLocals]

InitDist(endpoints) ==
    /\ pieces = newBucketerFromStream(Len(endpoints), endpoints)
    /\ dist = newDistribution(newBucketerFromStream(Len(endpoints), endpoints))
    /\ lock = [writer |-> Nil, readers |-> {}]
    /\ committed = <<>>
    /\ addsCalled = 0
    /\ addsReturned = 0

Init ==
    /\ InitNS
    /\ InitThreads
    /\ InitDist(<<2>>)

\* DirectorySpec.RegisterMetric on directory d (d = root: the package function).
RegisterMetric(d, path, value, unit, description) ==
    /\ last.op = "none"
    /\ LET r == registerMetric(NS, d, newPathSpec(path), value, unit, description)
       IN /\ entries' = r.ns.entries
          /\ dirs' = r.ns.dirs
          /\ metrics' = r.ns.metrics
          /\ last' = [op |-> "RegisterMetric", d |-> d, path |-> path,
                      value |-> value, unit |-> unit, description |-> description,
                      err |-> r.err, result |-> Nil, before |-> Len(entries)]
          /\ UNCHANGED <<distVars, thrVars, store>>

\* DirectorySpec.RegisterDirectory on directory d.
RegisterDirectory(d, path) ==
    /\ last.op = "none"
    /\ LET r == registerDirectory(NS, d, newPathSpec(path))
       IN /\ entries' = r.ns.entries
          /\ dirs' = r.ns.dirs
          /\ metrics' = r.ns.metrics
          /\ last' = [op |-> "RegisterDirectory", d |-> d, path |-> path,
                      err |-> r.err, result |-> r.result, before |-> Len(entries)]
          /\ UNCHANGED <<distVars, thrVars, store>>

\* The call has returned and the caller goes on to its next call.
Return ==
    /\ last.op # "none"
    /\ last' = [op |-> "none"]
    /\ UNCHANGED <<entries, dirs, metrics>>
    /\ UNCHANGED <<distVars, thrVars, store>>

\* The namespace is grown to MaxEntries entries.
Next ==
    \/ /\ Idle
       /\ \E d \in 1..Len(dirs), path \in PathStrings, a \in RegisterArgs :
             /\ RegisterMetric(d, path, a.value, a.unit, a.description)
             /\ Len(entries') <= MaxEntries
    \/ /\ Idle
       /\ \E d \in 1..Len(dirs), path \in PathStrings :
             /\ RegisterDirectory(d, path)
             /\ Len(entries') <= MaxEntries
    \/ Return

Spec == Init /\ [][Next]_vars

\* ------------------------------------------------ namespace, read operations
\* Registrations that build a namespace of a few entries, and the lookups,
\* listings and traversals of it.

\* The path strings handed to the operations: names (two letters, and a name
\* that ends in a blank) joined by "/", with or without a leading "/"; the
\* empty string and "/" among them.
TraversalPathStrings ==
    { s \in UNION {[1..n -> Chars] : n \in 0..MaxPathLen} :
        \A i \in 1..Len(Split(s)) :
            \/ Split(s)[i] \in {<<"a">>, <<"b">>, <<"a", " ">>}
            \/ Split(s)[i] = <<>> /\ i <= 2 /\ Len(s) <= 1
            \/ Split(s)[i] = <<>> /\ i = 1 }

\* The source of the metrics registered: a pointer to an int64.
TraversalSources == {x \in Sources : x.type = "int64"}

\* d.List()
ListOp(d) ==
    /\ last.op = "none"
    /\ last' = [op |-> "List", d |-> d, result |-> List(NS, d)]
    /\ UNCHANGED <<entries, dirs, metrics, distVars, thrVars, store>>

\* A GetDirectory that creates the directories it does not find.
GetDirectoryOp_Creates(d, path) ==
    /\ last.op = "none"
    /\ LET r == registerDirectory(NS, d, newPathSpec(path))
       IN /\ entries' = r.ns.entries
          /\ dirs' = r.ns.dirs
          /\ metrics' = r.ns.metrics
          /\ last' = [op |-> "GetDirectory", d |-> d, path |-> path,
                      result |-> r.result]
    /\ UNCHANGED <<distVars, thrVars, store>>

\* d.GetDirectory(path)
GetDirectoryOp(d, path) ==
    /\ last.op = "none"
    /\ last' = [op |-> "GetDirectory", d |-> d, path |-> path,
                result |-> GetDirectory(NS, d, path)]
    /\ UNCHANGED <<entries, dirs, metrics, distVars, thrVars, store>>

\* d.GetMetric(path)
GetMetricOp(d, path) ==
    /\ last.op = "none"
    /\ last' = [op |-> "GetMetric", d |-> d, path |-> path,
                result |-> GetMetric(NS, d, path)]
    /\ UNCHANGED <<entries, dirs, metrics, distVars, thrVars, store>>

\* d.GetDirectoryOrMetric(path)
GetDirectoryOrMetricOp(d, path) ==
    /\ last.op = "none"
    /\ last' = [op |-> "GetDirectoryOrMetric", d |-> d, path |-> path,
                dir |-> GetDirectoryOrMetric(NS, d, path).dir,
                metric |-> GetDirectoryOrMetric(NS, d, path).metric]
    /\ UNCHANGED <<entries, dirs, metrics, distVars, thrVars, store>>

\* d.GetAllMetrics(collector)
GetAllMetricsOp(d, collector) ==
    /\ last.op = "none"
    /\ LET r == GetAllMetrics(NS, d, collector)
       IN last' = [op |-> "GetAllMetrics", d |-> d, failAt |-> collector.failAt,
                   got |-> r.collector.got, err |-> r.err]
    /\ UNCHANGED <<entries, dirs, metrics, distVars, thrVars, store>>

\* d.GetAllMetricsByPath(path, collector)
GetAllMetricsByPathOp(d, path, collector) ==
    /\ last.op = "none"
    /\ LET r == GetAllMetricsByPath(NS, d, path, collector)
       IN last' = [op |-> "GetAllMetricsByPath", d |-> d, path |-> path,
                   failAt |-> collector.failAt,
                   got |-> r.collector.got, err |-> r.err]
    /\ UNCHANGED <<entries, dirs, metrics, distVars, thrVars, store>>

\* m.AbsPath() of a metric
MetricAbsPathOp(m) ==
    /\ last.op = "none"
    /\ last' = [op |-> "MetricAbsPath", metric |-> m,
                result |-> MetricAbsPath(NS, m)]
    /\ UNCHANGED <<entries, dirs, metrics, distVars, thrVars, store>>

\* d.AbsPath() of a directory
DirectoryAbsPathOp(d) ==
    /\ last.op = "none"
    /\ last' = [op |-> "DirectoryAbsPath", d |-> d,
                result |-> DirectoryAbsPath(NS, d)]
    /\ UNCHANGED <<entries, dirs, metrics, distVars, thrVars, store>>

\* The namespace is grown to MaxNodes entries.
NextL ==
    \/ /\ Idle
       /\ \E d \in 1..Len(dirs), path \in TraversalPathStrings, value \in TraversalSources :
             /\ RegisterMetric(d, path, value, "None", "d1")
             /\ Len(entries') <= MaxNodes
    \/ /\ Idle
       /\ \E d \in 1..Len(dirs), path \in TraversalPathStrings :
             /\ RegisterDirectory(d, path)
             /\ Len(entries') <= MaxNodes
    \/ /\ Idle
       /\ \E d \in 1..Len(dirs) : ListOp(d)
    \/ /\ Idle
       /\ \E d \in 1..Len(dirs), path \in TraversalPathStrings : GetDirectoryOp(d, path)
    \/ /\ Idle
       /\ \E d \in 1..Len(dirs), path \in TraversalPathStrings : GetMetricOp(d, path)
    \/ /\ Idle
       /\ \E d \in 1..Len(dirs), path \in TraversalPathStrings :
             GetDirectoryOrMetricOp(d, path)
    \/ /\ Idle
       /\ \E d \in 1..Len(dirs), collector \in Collectors : GetAllMetricsOp(d, collector)
    \/ /\ Idle
       /\ \E d \in 1..Len(dirs), path \in TraversalPathStrings, collector \in Collectors :
             GetAllMetricsByPathOp(d, path, collector)
    \/ /\ Idle
       /\ \E m \in 1..Len(metrics) : MetricAbsPathOp(m)
    \/ /\ Idle
       /\ \E d \in 1..Len(dirs) : DirectoryAbsPathOp(d)
    \/ Return

SpecL == Init /\ [][NextL]_vars

\* -------------------------------------------------- distribution, concurrent

\* A Lock that does not wait for the readers to leave.
CanLock_IgnoresReaders == lock.writer = Nil

\* sync.RWMutex: Lock waits until no writer and no reader holds the lock.
CanLock == lock.writer = Nil /\ lock.readers = {}

\* An RLock that never waits.
CanRLock_Always == TRUE

\* sync.RWMutex: RLock waits until no writer holds the lock.
CanRLock == lock.writer = Nil

InitD ==
    /\ InitNS
    /\ InitThreads
    /\ \E endpoints \in {<<1>>, <<1, 2>>} : InitDist(endpoints)

\* Add(value) is called: the bucket is looked up before the lock is taken.
AddCall(t, value) ==
    /\ pc[t] = "idle"
    /\ addsCalled < MaxAdds
    /\ loc' = [loc EXCEPT ![t] = [op |-> "Add", value |-> value,
                                  idx |-> findDistributionIndex(pieces, value)]]
    /\ pc' = [pc EXCEPT ![t] = "add_lock"]
    /\ addsCalled' = addsCalled + 1
    /\ UNCHANGED <<nsVars, pieces, dist, lock, committed, addsReturned>>

\* d.lock.Lock()
AddLock(t) ==
    /\ pc[t] = "add_lock"
    /\ CanLock
    /\ lock' = [lock EXCEPT !.writer = t]
    /\ pc' = [pc EXCEPT ![t] = "add_counts"]
    /\ UNCHANGED <<nsVars, pieces, dist, loc, committed, addsCalled, addsReturned>>

\* d.counts[idx]++
AddCounts(t) ==
    /\ pc[t] = "add_counts"
    /\ dist' = [dist EXCEPT !.counts[loc[t].idx + 1] = @ + 1]
    /\ pc' = [pc EXCEPT ![t] = "add_total"]
    /\ UNCHANGED <<nsVars, pieces, lock, loc, committed, addsCalled, addsReturned>>

\* d.total += value
AddTotal(t) ==
    /\ pc[t] = "add_total"
    /\ dist' = [dist EXCEPT !.total = @ + loc[t].value]
    /\ pc' = [pc EXCEPT ![t] = "add_minmax"]
    /\ UNCHANGED <<nsVars, pieces, lock, loc, committed, addsCalled, addsReturned>>

\* The min / max update of Add.
AddMinMax(t) ==
    /\ pc[t] = "add_minmax"
    /\ dist' = addMinMax(dist, loc[t].value)
    /\ pc' = [pc EXCEPT ![t] = "add_count"]
    /\ UNCHANGED <<nsVars, pieces, lock, loc, committed, addsCalled, addsReturned>>

\* d.count++
AddCount(t) ==
    /\ pc[t] = "add_count"
    /\ dist' = [dist EXCEPT !.count = @ + 1]
    /\ pc' = [pc EXCEPT ![t] = "add_unlock"]
    /\ UNCHANGED <<nsVars, pieces, lock, loc, committed, addsCalled, addsReturned>>

\* The deferred d.lock.Unlock(), and Add returns.
AddUnlock(t) ==
    /\ pc[t] = "add_unlock"
    /\ lock' = [lock EXCEPT !.writer = Nil]
    /\ committed' = Append(committed, loc[t].value)
    /\ addsReturned' = addsReturned + 1
    /\ pc' = [pc EXCEPT ![t] = "idle"]
    /\ loc' = [loc EXCEPT ![t] = NoLocals]
    /\ UNCHANGED <<nsVars, pieces, dist, addsCalled>>

\* Snapshot() is called: the bucket descriptors are copied without the lock.
SnapshotCall(t) ==
    /\ pc[t] = "idle"
    /\ loc' = [loc EXCEPT ![t] =
                 [op |-> "Snapshot", i |-> 0, returnedAtCall |-> addsReturned,
                  bdn |-> [i \in 1..Len(pieces) |->
                              [bucketPiece |-> pieces[i], Count |-> 0]]]]
    /\ pc' = [pc EXCEPT ![t] = "snap_rlock"]
    /\ UNCHANGED <<nsVars, distVars>>

\* d.lock.RLock()
SnapshotRLock(t) ==
    /\ pc[t] = "snap_rlock"
    /\ CanRLock
    /\ lock' = [lock EXCEPT !.readers = @ \cup {t}]
    /\ pc' = [pc EXCEPT ![t] = "snap_copy"]
    /\ UNCHANGED <<nsVars, pieces, dist, loc, committed, addsCalled, addsReturned>>

\* One round of the loop bdn[i].Count = d.counts[i].
SnapshotCopy(t) ==
    /\ pc[t] = "snap_copy"
    /\ loc' = [loc EXCEPT ![t].bdn[loc[t].i + 1].Count = dist.counts[loc[t].i + 1],
                          ![t].i = @ + 1]
    /\ pc' = [pc EXCEPT ![t] = IF loc[t].i + 1 < Len(loc[t].bdn)
                                THEN "snap_copy" ELSE "snap_build"]
    /\ UNCHANGED <<nsVars, distVars>>

\* The snapshot struct is built from the fields of d.
SnapshotBuild(t) ==
    /\ pc[t] = "snap_build"
    /\ loc' = [loc EXCEPT ![t] =
                 [op |-> "Snapshot", returnedAtCall |-> loc[t].returnedAtCall,
                  snapshot |-> buildSnapshot(pieces, dist, loc[t].bdn)]]
    /\ pc' = [pc EXCEPT ![t] = "snap_runlock"]
    /\ UNCHANGED <<nsVars, distVars>>

\* The deferred d.lock.RUnlock(), and Snapshot returns its result.
SnapshotRUnlock(t) ==
    /\ pc[t] = "snap_runlock"
    /\ lock' = [lock EXCEPT !.readers = @ \ {t}]
    /\ pc' = [pc EXCEPT ![t] = "snap_returned"]
    /\ UNCHANGED <<nsVars, pieces, dist, loc, committed, addsCalled, addsReturned>>

\* The caller has the snapshot and goes on.
SnapshotDone(t) ==
    /\ pc[t] = "snap_returned"
    /\ pc' = [pc EXCEPT ![t] = "idle"]
    /\ loc' = [loc EXCEPT ![t] = NoLocals]
    /\ UNCHANGED <<nsVars, distVars>>

NextD ==
    \/ \E t \in Threads, value \in 0..MaxValue : AddCall(t, value)
    \/ \E t \in Threads : AddLock(t)
    \/ \E t \in Threads : AddCounts(t)
    \/ \E t \in Threads : AddTotal(t)
    \/ \E t \in Threads : AddMinMax(t)
    \/ \E t \in Threads : AddCount(t)
    \/ \E t \in Threads : AddUnlock(t)
    \/ \E t \in Threads : SnapshotCall(t)
    \/ \E t \in Threads : SnapshotRLock(t)
    \/ \E t \in Threads : SnapshotCopy(t)
    \/ \E t \in Threads : SnapshotBuild(t)
    \/ \E t \in Threads : SnapshotRUnlock(t)
    \/ \E t \in Threads : SnapshotDone(t)

SpecD == InitD /\ [][NextD]_vars

\* -------------------------------------------------- distribution, one caller
\* A distribution filled and read by one caller: Add and Snapshot run from call
\* to return.

\* The cut points the bucketers are made of.
CutPoints == {1, 3, 5}

RECURSIVE Ascending(_)
\* The members of a set of numbers in ascending order.
Ascending(S) ==
    IF S = {} THEN <<>>
    ELSE LET m == CHOOSE x \in S : \A y \in S : x <= y
         IN <<m>> \o Ascending(S \ {m})


Samples == 0..MaxSample

InitS ==
    /\ InitNS
    /\ InitThreads
    /\ \E S \in (SUBSET CutPoints) \ {{}} : InitDist(Ascending(S))

\* distribution.Add(value)
Add(value) ==
    /\ last.op = "none"
    /\ Len(committed) < MaxSamples
    /\ LET idx == findDistributionIndex(pieces, value)
           counted == [dist EXCEPT !.counts[idx + 1] = @ + 1, !.total = @ + value]
       IN dist' = [addMinMax(counted, value) EXCEPT !.count = @ + 1]
    /\ committed' = Append(committed, value)
    /\ addsCalled' = addsCalled + 1
    /\ addsReturned' = addsReturned + 1
    /\ UNCHANGED <<nsVars, thrVars, pieces, lock>>

\* distribution.Snapshot()
Snapshot ==
    /\ last.op = "none"
    /\ last' = [op |-> "Snapshot",
                snapshot |-> buildSnapshot(pieces, dist,
                    [i \in 1..Len(pieces) |->
                        [bucketPiece |-> pieces[i], Count |-> dist.counts[i]]])]
    /\ UNCHANGED <<entries, dirs, metrics, distVars, thrVars, store>>

NextS ==
    \/ \E value \in Samples : Add(value)
    \/ Snapshot
    \/ Return

SpecS == InitS /\ [][NextS]_vars

\* ----------------------------------------------------- namespace, concurrent
\* The operations of the namespace called from several threads. directory has no
\* lock, so the accesses of a child map are the steps of a call: each access
\* takes from its begin step to its end step. A read of a map that another
\* thread is writing is a data race: it yields the old or the new binding, or
\* the runtime ends the program (pc = "fatal"); so does a write that meets
\* another write.

\* The path strings handed to the concurrent calls.
ConcPathStrings == {<<"a">>, <<"/", "a">>, <<"a", "/", "b">>, <<"/">>}


Alive == \A t \in Threads : pc[t] # "fatal"

MidRead(t) == pc[t] \in {"cd_reading", "sm_reading", "gd_reading", "gb_reading",
                         "ls_reading"}

MidWrite(t) == pc[t] \in {"cd_writing", "sm_writing"}

\* The threads other than t that are writing the child map of directory d.
WritersOf(t, d) == {u \in Threads \ {t} : MidWrite(u) /\ loc[u].cur = d}

\* What a read of d.contents[name] by thread t may yield.
ReadOutcomes(t, d, name) ==
    {MapGet(dirs[d].contents, name)}
       \cup {loc[u].new : u \in {w \in WritersOf(t, d) : loc[w].name = name}}

\* The walk of a call goes on with the next segment, or with what follows it.
WalkOn(t, l) ==
    IF l.i <= Len(l.walk)
    THEN /\ loc' = [loc EXCEPT ![t] = [l EXCEPT !.name = l.walk[l.i]]]
         /\ pc' = [pc EXCEPT ![t] = IF l.op = "Lookup" THEN "gd_reading"
                                     ELSE "cd_reading"]
    ELSE IF l.op = "RegisterDirectory"
    THEN /\ loc' = [loc EXCEPT ![t] = [l EXCEPT !.err = ErrNil, !.result = l.cur]]
         /\ pc' = [pc EXCEPT ![t] = "returned"]
    ELSE IF l.op = "RegisterMetric"
    THEN IF ~newValue(l.value).ok
         THEN /\ loc' = [loc EXCEPT ![t] = [l EXCEPT !.err = Panic]]
              /\ pc' = [pc EXCEPT ![t] = "returned"]
         ELSE /\ loc' = [loc EXCEPT ![t] = [l EXCEPT !.name = Base(l.path)]]
              /\ pc' = [pc EXCEPT ![t] = "sm_reading"]
    ELSE /\ loc' = [loc EXCEPT ![t] = [l EXCEPT !.name = Base(l.path)]]
         /\ pc' = [pc EXCEPT ![t] = "gb_reading"]

Locals(op, d, path, walk) ==
    [op |-> op, d |-> d, path |-> path, walk |-> walk, i |-> 1, cur |-> d,
     name |-> <<>>, new |-> Nil, newDir |-> Nil, err |-> ErrNil, result |-> Nil,
     metric |-> Nil, value |-> Nil, unit |-> "", description |-> "",
     unboundAtCall |-> FALSE]

\* registerMetric is called on the root by thread t.
CallRegisterMetric(t, path, value, unit, description) ==
    /\ Alive
    /\ pc[t] = "idle"
    /\ LET ps == newPathSpec(path)
           l == [Locals("RegisterMetric", root, ps,
                        IF Empty(ps) THEN <<>> ELSE Dir(ps))
                   EXCEPT !.value = value, !.unit = unit,
                          !.description = description,
                          !.unboundAtCall =
                              (ps # <<>> /\ getDirectoryOrMetric(NS, root, ps)
                                               = [dir |-> Nil, metric |-> Nil])]
       IN IF Empty(ps)
          THEN /\ loc' = [loc EXCEPT ![t] = [l EXCEPT !.err = ErrPathInUse]]
               /\ pc' = [pc EXCEPT ![t] = "returned"]
          ELSE WalkOn(t, l)
    /\ UNCHANGED <<nsVars, distVars>>

\* registerDirectory is called on the root by thread t.
CallRegisterDirectory(t, path) ==
    /\ Alive
    /\ pc[t] = "idle"
    /\ WalkOn(t, Locals("RegisterDirectory", root, newPathSpec(path),
                        newPathSpec(path)))
    /\ UNCHANGED <<nsVars, distVars>>

\* getDirectoryOrMetric is called on the root by thread t (GetMetric,
\* GetDirectory, GetDirectoryOrMetric).
CallLookup(t, path) ==
    /\ Alive
    /\ pc[t] = "idle"
    /\ LET ps == newPathSpec(path)
           l == Locals("Lookup", root, ps, IF Empty(ps) THEN <<>> ELSE Dir(ps))
       IN IF Empty(ps)
          THEN /\ loc' = [loc EXCEPT ![t] = [l EXCEPT !.result = root]]
               /\ pc' = [pc EXCEPT ![t] = "returned"]
          ELSE WalkOn(t, l)
    /\ UNCHANGED <<nsVars, distVars>>

\* List is called on directory d by thread t: the range over d.contents begins.
CallList(t, d) ==
    /\ Alive
    /\ pc[t] = "idle"
    /\ loc' = [loc EXCEPT ![t] = Locals("List", d, <<>>, <<>>)]
    /\ pc' = [pc EXCEPT ![t] = "ls_reading"]
    /\ UNCHANGED <<nsVars, distVars>>

\* createDirIfNeeded: n := d.contents[name] is read, and the branch on n taken; a
\* new directory and its listEntry are allocated before the map is written.
CreateDirRead(t) ==
    /\ Alive
    /\ pc[t] = "cd_reading"
    /\ \E n \in ReadOutcomes(t, loc[t].cur, loc[t].name) :
          IF n = Nil
          THEN /\ Len(entries) < MaxEntries
               /\ entries' = Append(entries,
                      [Name |-> loc[t].name, Metric |-> Nil,
                       Directory |-> Len(dirs) + 1,
                       parent |-> dirs[loc[t].cur].enclosingListEntry])
               /\ dirs' = Append(dirs,
                      [newDirectory EXCEPT !.enclosingListEntry = Len(entries) + 1])
               /\ loc' = [loc EXCEPT ![t].new = Len(entries) + 1,
                                     ![t].newDir = Len(dirs) + 1]
               /\ pc' = [pc EXCEPT ![t] = "cd_writing"]
               /\ UNCHANGED <<metrics, last, distVars, store>>
          ELSE IF entries[n].Directory # Nil
          THEN /\ WalkOn(t, [loc[t] EXCEPT !.cur = entries[n].Directory, !.i = @ + 1])
               /\ UNCHANGED <<nsVars, distVars>>
          ELSE /\ loc' = [loc EXCEPT ![t].err = ErrPathInUse, ![t].result = Nil]
               /\ pc' = [pc EXCEPT ![t] = "returned"]
               /\ UNCHANGED <<nsVars, distVars>>

\* createDirIfNeeded: d.contents[name] = newListEntry is written.
CreateDirWrite(t) ==
    /\ Alive
    /\ pc[t] = "cd_writing"
    /\ dirs' = [dirs EXCEPT ![loc[t].cur].contents =
                                MapPut(@, loc[t].name, loc[t].new)]
    /\ WalkOn(t, [loc[t] EXCEPT !.cur = loc[t].newDir, !.i = @ + 1,
                                !.new = Nil, !.newDir = Nil])
    /\ UNCHANGED <<entries, metrics, last, distVars, store>>

\* storeMetric: n := d.contents[name] is read, and the branch on n taken; the
\* listEntry of the metric is allocated before the map is written.
StoreMetricRead(t) ==
    /\ Alive
    /\ pc[t] = "sm_reading"
    /\ \E n \in ReadOutcomes(t, loc[t].cur, loc[t].name) :
          IF n # Nil
          THEN /\ loc' = [loc EXCEPT ![t].err = ErrPathInUse]
               /\ pc' = [pc EXCEPT ![t] = "returned"]
               /\ UNCHANGED <<nsVars, distVars>>
          ELSE /\ Len(entries) < MaxEntries
               /\ entries' = Append(entries,
                      [Name |-> loc[t].name, Metric |-> Len(metrics) + 1,
                       Directory |-> Nil,
                       parent |-> dirs[loc[t].cur].enclosingListEntry])
               /\ metrics' = Append(metrics,
                      [Description |-> loc[t].description, Unit |-> loc[t].unit,
                       Value |-> newValue(loc[t].value),
                       enclosingListEntry |-> Len(entries) + 1])
               /\ loc' = [loc EXCEPT ![t].new = Len(entries) + 1,
                                     ![t].metric = Len(metrics) + 1]
               /\ pc' = [pc EXCEPT ![t] = "sm_writing"]
               /\ UNCHANGED <<dirs, last, distVars, store>>

\* storeMetric: d.contents[name] = newListEntry is written, and nil returned.
StoreMetricWrite(t) ==
    /\ Alive
    /\ pc[t] = "sm_writing"
    /\ dirs' = [dirs EXCEPT ![loc[t].cur].contents =
                                MapPut(@, loc[t].name, loc[t].new)]
    /\ loc' = [loc EXCEPT ![t].err = ErrNil]
    /\ pc' = [pc EXCEPT ![t] = "returned"]
    /\ UNCHANGED <<entries, metrics, last, distVars, store>>

\* getDirectory: n := result.contents[part] is read.
GetDirectoryRead(t) ==
    /\ Alive
    /\ pc[t] = "gd_reading"
    /\ \E n \in ReadOutcomes(t, loc[t].cur, loc[t].name) :
          IF n = Nil \/ entries[n].Directory = Nil
          THEN /\ loc' = [loc EXCEPT ![t].result = Nil, ![t].metric = Nil]
               /\ pc' = [pc EXCEPT ![t] = "returned"]
          ELSE WalkOn(t, [loc[t] EXCEPT !.cur = entries[n].Directory, !.i = @ + 1])
    /\ UNCHANGED <<nsVars, distVars>>

\* getDirectoryOrMetric: n := dir.contents[path.Base()] is read.
GetBaseRead(t) ==
    /\ Alive
    /\ pc[t] = "gb_reading"
    /\ \E n \in ReadOutcomes(t, loc[t].cur, loc[t].name) :
          /\ loc' = [loc EXCEPT
                ![t].result = IF n = Nil THEN Nil ELSE entries[n].Directory,
                ![t].metric = IF n = Nil THEN Nil ELSE entries[n].Metric]
          /\ pc' = [pc EXCEPT ![t] = "returned"]
    /\ UNCHANGED <<nsVars, distVars>>

\* List: the range over d.contents ends; the result holds the entries it saw.
ListRead(t) ==
    /\ Alive
    /\ pc[t] = "ls_reading"
    /\ \E seen \in SUBSET {loc[u].new : u \in WritersOf(t, loc[t].cur)} :
          loc' = [loc EXCEPT ![t].result =
                     {dirs[loc[t].cur].contents[x] :
                         x \in DOMAIN dirs[loc[t].cur].contents} \cup seen]
    /\ pc' = [pc EXCEPT ![t] = "returned"]
    /\ UNCHANGED <<nsVars, distVars>>

\* The runtime finds a map being read or written while another thread writes it
\* and ends the program: "concurrent map read and map write", "concurrent map
\* writes".
MapRaceFatal(t) ==
    /\ Alive
    /\ MidRead(t) \/ MidWrite(t)
    /\ WritersOf(t, loc[t].cur) # {}
    /\ pc' = [pc EXCEPT ![t] = "fatal"]
    /\ UNCHANGED <<nsVars, distVars, loc>>

\* The call of thread t has returned and the thread goes on.
ConcReturn(t) ==
    /\ Alive
    /\ pc[t] = "returned"
    /\ pc' = [pc EXCEPT ![t] = "idle"]
    /\ loc' = [loc EXCEPT ![t] = NoLocals]
    /\ UNCHANGED <<nsVars, distVars>>

NextC ==
    \/ \E t \in Threads, path \in ConcPathStrings,
          value \in {x \in Sources : x.shape = "ptr" /\ x.type = "int64"},
          a \in MetricArgs :
          CallRegisterMetric(t, path, value, a.unit, a.description)
    \/ \E t \in Threads, path \in ConcPathStrings : CallRegisterDirectory(t, path)
    \/ \E t \in Threads, path \in ConcPathStrings : CallLookup(t, path)
    \/ \E t \in Threads, d \in 1..Len(dirs) : CallList(t, d)
    \/ \E t \in Threads : CreateDirRead(t)
    \/ \E t \in Threads : CreateDirWrite(t)
    \/ \E t \in Threads : StoreMetricRead(t)
    \/ \E t \in Threads : StoreMetricWrite(t)
    \/ \E t \in Threads : GetDirectoryRead(t)
    \/ \E t \in Threads : GetBaseRead(t)
    \/ \E t \in Threads : ListRead(t)
    \/ \E t \in Threads : MapRaceFatal(t)
    \/ \E t \in Threads : ConcReturn(t)

SpecC == Init /\ [][NextC]_vars

\* ------------------------------------------------------- path parser, alone

\* Every string of at most MaxPathLen characters: segments of several
\* characters, blanks inside and around them, slashes anywhere.
AllPathStrings == UNION {[1..n -> Chars] : n \in 0..MaxPathLen}

\* newPathSpec(path), as every registration and lookup calls it on its argument.
NewPathSpecOp(path) ==
    /\ last' = [op |-> "newPathSpec", path |-> path, result |-> newPathSpec(path)]
    /\ UNCHANGED <<entries, dirs, metrics>>
    /\ UNCHANGED <<distVars, thrVars, store>>

\* The parser on every string, next to the registrations that call it.
NextP ==
    \/ /\ Idle
       /\ \E path \in AllPathStrings : NewPathSpecOp(path)
    \/ Next

SpecP == Init /\ [][NextP]_vars

\* ------------------------------------------------------ bucketers, building

\* The counts handed to the bucketer constructors: 0..MaxCount.
MaxCount == 4

\* The start, increment and scale handed to them: -1..MaxStep.
MaxStep == 2

\* The record of a call of a bucketer constructor: what the stream function s
\* announced and sent, and the bucketer newBucketerFromStream built from it.
Built(s) ==
    [size |-> s.size, stream |-> s.stream,
     result |-> IF s.panic THEN NoBucketer
                ELSE newBucketerFromStream(s.size, s.stream)]

NewExponentialBucketer(count, start, scale) ==
    /\ last' = [op |-> "NewExponentialBucketer", count |-> count, start |-> start,
                step |-> scale,
                built |-> Built(newExponentialBucketerStream(count, start, scale))]
    /\ UNCHANGED <<entries, dirs, metrics>>
    /\ UNCHANGED <<distVars, thrVars, store>>

NewLinearBucketer(count, start, increment) ==
    /\ last' = [op |-> "NewLinearBucketer", count |-> count, start |-> start,
                step |-> increment,
                built |-> Built(newLinearBucketerStream(count, start, increment))]
    /\ UNCHANGED <<entries, dirs, metrics>>
    /\ UNCHANGED <<distVars, thrVars, store>>

NewArbitraryBucketer(endpoints) ==
    /\ last' = [op |-> "NewArbitraryBucketer", endpoints |-> endpoints,
                built |-> Built(newArbitraryBucketerStream(endpoints))]
    /\ UNCHANGED <<entries, dirs, metrics>>
    /\ UNCHANGED <<distVars, thrVars, store>>

\* count is 0..MaxCount; start, increment and scale are -1..MaxStep; the
\* endpoints are ascending or not, none or some.
NextB ==
    \/ /\ Idle
       /\ \E count \in 0..MaxCount, start \in (0 - 1)..MaxStep,
             scale \in (0 - 1)..MaxStep :
             NewExponentialBucketer(count, start, scale)
    \/ /\ Idle
       /\ \E count \in 0..MaxCount, start \in (0 - 1)..MaxStep,
             increment \in (0 - 1)..MaxStep :
             NewLinearBucketer(count, start, increment)
    \/ /\ Idle
       /\ \E endpoints \in UNION {[1..n -> CutPoints] : n \in 0..3} :
             NewArbitraryBucketer(endpoints)
    \/ Return

SpecB == Init /\ [][NextB]_vars

\* --------------------------------------------------------- values, being read

\* The application writes 0..MaxWrite to its numbers, and times that many
\* seconds after the epoch.
MaxWrite == 1

\* A pointer to a variable of every recognized type, a pointer to a pointer to
\* a time, a func returning an int64 and one returning a pointer to a time, a
\* func that takes an argument, and a distribution.
ValueSources ==
    { [shape |-> "ptr", type |-> t.type, numOut |-> 0, numIn |-> 0, var |-> t.var] :
        t \in { [type |-> "bool", var |-> "b"], [type |-> "int64", var |-> "i"],
                [type |-> "uint32", var |-> "u"], [type |-> "float64", var |-> "f"],
                [type |-> "string", var |-> "s"], [type |-> "time", var |-> "tm"],
                [type |-> "timePtr", var |-> "tp"] } }
    \cup
    { [shape |-> "func", type |-> "int64", numOut |-> 1, numIn |-> 0, var |-> "i"],
      [shape |-> "func", type |-> "timePtr", numOut |-> 1, numIn |-> 0, var |-> "tp"],
      [shape |-> "func", type |-> "int64", numOut |-> 1, numIn |-> 1, var |-> "i"],
      [shape |-> "dist", type |-> "Distribution", numOut |-> 0, numIn |-> 0, var |-> "d"] }

\* What the application writes to each of its variables.
VarValues ==
    [b |-> BOOLEAN, i |-> 0..MaxWrite, u |-> 0..MaxWrite, f |-> 0..MaxWrite,
     s |-> {<<>>, <<"a">>},
     tm |-> {ZeroTime} \cup {TimeOf(n) : n \in 1..MaxWrite},
     tp |-> {<<>>} \cup {<<TimeOf(n)>> : n \in 1..MaxWrite}]

\* The application assigns to one of its variables, with no call to the
\* registry. Only the writes to a variable some metric is registered on are
\* followed: what a variable held before is what it holds at registration.
WriteVar(var, x) ==
    /\ \E m \in 1..Len(metrics) : metrics[m].Value.val.var = var
    /\ x # store[var]
    /\ store' = [store EXCEPT ![var] = x]
    /\ UNCHANGED <<entries, dirs, metrics, last, distVars, thrVars>>

\* The reads of a value.
ReadNames ==
    {"AsBool", "AsInt", "AsUint", "AsFloat", "AsString", "AsTime",
     "AsDistribution", "AsTextString", "AsHtmlString", "AsRPCValue"}

\* metrics[m].Value.AsXXX(), op naming the method: the record of the call and
\* of what it came back with.
ReadValue(op, m) ==
    /\ LET v == metrics[m].Value
       IN last' = [op |-> op, metric |-> m,
                   ret |-> CASE op = "AsBool" -> AsBool(v, store)
                             [] op = "AsInt" -> AsInt(v, store)
                             [] op = "AsUint" -> AsUint(v, store)
                             [] op = "AsFloat" -> AsFloat(v, store)
                             [] op = "AsString" -> AsString(v, store)
                             [] op = "AsTime" -> AsTime(v, store)
                             [] op = "AsDistribution" -> AsDistribution(v, store)
                             [] op = "AsTextString" -> AsTextString(v, store)
                             [] op = "AsHtmlString" -> AsHtmlString(v, store)
                             [] op = "AsRPCValue" -> AsRPCValue(v, store, pieces, dist)]
    /\ UNCHANGED <<entries, dirs, metrics, distVars, thrVars, store>>

NextV ==
    \/ /\ Idle
       /\ \E path \in {<<"a">>, <<"b">>}, value \in ValueSources :
             /\ RegisterMetric(root, path, value, "None", "d1")
             /\ Len(entries') <= MaxEntries
    \/ /\ Idle
       /\ \E var \in DOMAIN InitStore : \E x \in VarValues[var] : WriteVar(var, x)
    \/ /\ Idle
       /\ \E op \in ReadNames, m \in 1..Len(metrics) : ReadValue(op, m)
    \/ Return

SpecV == Init /\ [][NextV]_vars

\* ------------------------------------- namespace, traversal with a sink that registers

\* The collectors whose Collect registers a metric: on its regAt-th call the
\* sink calls RegisterMetric(regPath, ...) of the package before it returns,
\* regPath being a path of the traversal that starts with a name; failAt is as
\* for Collectors.
RegisteringCollectors ==
    { [failAt |-> f, got |-> <<>>, regAt |-> k, regPath |-> p] :
        f \in {0, 2}, k \in 1..2,
        p \in {s \in TraversalPathStrings : s # <<>> /\ s[1] # "/"} }

\* collector.Collect(m) of such a sink: the namespace as the call leaves it,
\* the collector and the error returned.
CollectRegistering(ns, c, m) ==
    LET r == Collect(c, m)
    IN [ns |-> IF Len(c.got) + 1 = c.regAt
               THEN registerMetric(ns, root, newPathSpec(c.regPath),
                                   CHOOSE x \in TraversalSources : TRUE,
                                   "None", "d1").ns
               ELSE ns,
        collector |-> r.collector, err |-> r.err]

RECURSIVE GetAllMetricsWalk_LiveList(_, _, _, _, _)
\* A traversal that takes d.List() anew at every round of its loop.
GetAllMetricsWalk_LiveList(ns, d, list, i, c) ==
    IF i > Len(List(ns, d))
    THEN [ns |-> ns, collector |-> c, err |-> ErrNil]
    ELSE LET entry == ns.entries[List(ns, d)[i]]
             r == IF entry.Directory # Nil
                  THEN GetAllMetricsWalk_LiveList(ns, entry.Directory,
                           List(ns, entry.Directory), 1, c)
                  ELSE CollectRegistering(ns, c, entry.Metric)
         IN IF r.err # ErrNil
            THEN r
            ELSE GetAllMetricsWalk_LiveList(r.ns, d, list, i + 1, r.collector)

RECURSIVE GetAllMetricsWalk(_, _, _, _, _)
\* The loop of d.GetAllMetrics from the i-th entry on of the list d.List()
\* returned when the call began, in a namespace that the calls to Collect may
\* change: the List of a directory below is taken when the loop comes to it.
GetAllMetricsWalk(ns, d, list, i, c) ==
    IF i > Len(list)
    THEN [ns |-> ns, collector |-> c, err |-> ErrNil]
    ELSE LET entry == ns.entries[list[i]]
             r == IF entry.Directory # Nil
                  THEN GetAllMetricsWalk(ns, entry.Directory,
                           List(ns, entry.Directory), 1, c)
                  ELSE CollectRegistering(ns, c, entry.Metric)
         IN IF r.err # ErrNil
            THEN r
            ELSE GetAllMetricsWalk(r.ns, d, list, i + 1, r.collector)

\* d.GetAllMetrics(collector) with a sink that registers.
GetAllMetricsRegisteringOp(d, collector) ==
    /\ LET r == GetAllMetricsWalk(NS, d, List(NS, d), 1, collector)
       IN /\ entries' = r.ns.entries
          /\ dirs' = r.ns.dirs
          /\ metrics' = r.ns.metrics
          /\ last' = [op |-> "GetAllMetricsRegistering", d |-> d,
                      failAt |-> collector.failAt, regAt |-> collector.regAt,
                      regPath |-> collector.regPath,
                      got |-> r.collector.got, err |-> r.err,
                      before |-> Len(entries), metricsBefore |-> Len(metrics)]
    /\ UNCHANGED <<distVars, thrVars, store>>

\* The namespace is grown to MaxNodes entries, by the callers and by the sink.
NextT ==
    \/ /\ Idle
       /\ \E d \in 1..Len(dirs), path \in TraversalPathStrings, value \in TraversalSources :
             /\ RegisterMetric(d, path, value, "None", "d1")
             /\ Len(entries') <= MaxNodes
    \/ /\ Idle
       /\ \E d \in 1..Len(dirs), path \in TraversalPathStrings :
             /\ RegisterDirectory(d, path)
             /\ Len(entries') <= MaxNodes
    \/ /\ Idle
       /\ \E d \in 1..Len(dirs), collector \in RegisteringCollectors :
             /\ GetAllMetricsRegisteringOp(d, collector)
             /\ Len(entries') <= MaxNodes
    \/ Return

SpecT == Init /\ [][NextT]_vars

\* ------------------------------------------------------------------ claims

RECURSIVE Bound(_, _, _)
\* The listEntry the non-empty segment sequence ps is bound to, walking the
\* child maps from directory d through directories; Nil when it is unbound.
Bound(ns, d, ps) ==
    LET n == IF Head(ps) \in DOMAIN ns.dirs[d].contents
             THEN ns.dirs[d].contents[Head(ps)] ELSE Nil
    IN IF Len(ps) = 1 THEN n
       ELSE IF n = Nil THEN Nil
       ELSE IF ns.entries[n].Directory = Nil THEN Nil
       ELSE Bound(ns, ns.entries[n].Directory, Tail(ps))

IsMetricAt(ns, d, ps) ==
    /\ ps # <<>>
    /\ Bound(ns, d, ps) # Nil
    /\ ns.entries[Bound(ns, d, ps)].Metric # Nil

\* The directory ps resolves to from d (d itself for the empty path), or Nil.
DirAt(ns, d, ps) ==
    IF ps = <<>> THEN d
    ELSE IF Bound(ns, d, ps) = Nil THEN Nil
    ELSE ns.entries[Bound(ns, d, ps)].Directory

Prefix(ps, k) == SubSeq(ps, 1, k)

\* The names bound anywhere in the namespace, and the paths made of them.
NamesOf(ns) == UNION {DOMAIN ns.dirs[d].contents : d \in 1..Len(ns.dirs)}

PathsOf(ns) == UNION {[1..n -> NamesOf(ns)] : n \in 1..MaxEntries}

SupportedSource(value) == newValue(value).ok

\* C1 as stated: RegisterMetric returns ErrPathInUse whenever the path parses
\* to the empty path, or a proper prefix of it is bound to a metric, or its last
\* segment is already bound to anything in its parent directory.
C1_AsStated ==
    [][ last'.op = "RegisterMetric" =>
          LET ps == newPathSpec(last'.path)
              d == last'.d
          IN (\/ Empty(ps)
              \/ \E k \in 1..(Len(ps) - 1) : IsMetricAt(NS, d, Prefix(ps, k))
              \/ (ps # <<>> /\ Bound(NS, d, ps) # Nil))
             => last'.err = ErrPathInUse ]_vars

\* C1 amended: RegisterMetric returns ErrPathInUse whenever the path parses to
\* the empty path or a proper prefix of it is bound to a metric (whatever the
\* source), and, when the source is of a supported shape, whenever its last
\* segment is already bound to anything in its parent directory; with an
\* unsupported source and no metric among the ancestors it panics instead.
C1_PathInUse ==
    [][ last'.op = "RegisterMetric" =>
          LET ps == newPathSpec(last'.path)
              d == last'.d
              ancestorIsMetric ==
                  \E k \in 1..(Len(ps) - 1) : IsMetricAt(NS, d, Prefix(ps, k))
          IN /\ (Empty(ps) \/ ancestorIsMetric) => last'.err = ErrPathInUse
             /\ (ps # <<>> /\ Bound(NS, d, ps) # Nil /\ SupportedSource(last'.value))
                   => last'.err = ErrPathInUse
             /\ (ps # <<>> /\ ~ancestorIsMetric /\ ~SupportedSource(last'.value))
                   => last'.err = Panic ]_vars

\* A RegisterMetric with a supported source on a path whose last segment is
\* already bound to a directory has returned ErrPathInUse.
C1_Witness ==
    /\ last.op = "RegisterMetric"
    /\ last.err = ErrPathInUse
    /\ SupportedSource(last.value)
    /\ Len(newPathSpec(last.path)) = 2
    /\ DirAt(NS, last.d, newPathSpec(last.path)) # Nil

\* C2 (N1, role exclusivity): every listEntry has exactly one of its Directory
\* and Metric fields set, in every state reached by registrations.
C2_RoleExclusive ==
    \A e \in 1..Len(entries) :
        (entries[e].Directory # Nil) # (entries[e].Metric # Nil)

\* A failed registration of a directory over a metric, in a namespace that
\* holds both a directory and a metric.
C2_Witness ==
    /\ last.op = "RegisterDirectory"
    /\ last.err = ErrPathInUse
    /\ \E e \in 1..Len(entries) : entries[e].Directory # Nil
    /\ \E e \in 1..Len(entries) : entries[e].Metric # Nil

\* C3 (N3, no overwrite): a path bound to an entry stays bound to the same
\* entry object, and the entry keeps its name, role and parent, over every step.
C3_NoOverwrite ==
    [][ \A d \in 1..Len(dirs) : \A ps \in PathsOf(NS) :
          Bound(NS, d, ps) # Nil =>
             /\ d <= Len(dirs')
             /\ Bound(NS', d, ps) = Bound(NS, d, ps)
             /\ Bound(NS, d, ps) <= Len(entries')
             /\ entries'[Bound(NS, d, ps)] = entries[Bound(NS, d, ps)] ]_vars

\* A registration was refused on a path that was and still is bound to a metric
\* two levels down.
C3_Witness ==
    /\ last.op \in {"RegisterMetric", "RegisterDirectory"}
    /\ last.err = ErrPathInUse
    /\ Len(newPathSpec(last.path)) = 2
    /\ IsMetricAt(NS, last.d, newPathSpec(last.path))

\* C4: RegisterDirectory on a path that already resolves to a directory returns
\* that directory with no error and leaves the namespace unchanged.
C4_Idempotent ==
    [][ (last'.op = "RegisterDirectory"
            /\ DirAt(NS, last'.d, newPathSpec(last'.path)) # Nil)
          => /\ last'.err = ErrNil
             /\ last'.result = DirAt(NS, last'.d, newPathSpec(last'.path))
             /\ NS' = NS ]_vars

\* A RegisterDirectory of a two-segment path that created nothing has returned
\* the directory the path resolves to.
C4_Witness ==
    /\ last.op = "RegisterDirectory"
    /\ last.err = ErrNil
    /\ Len(newPathSpec(last.path)) = 2
    /\ last.before = Len(entries)
    /\ last.result = DirAt(NS, last.d, newPathSpec(last.path))

\* C5: RegisterDirectory returns ErrPathInUse and no directory whenever a
\* segment along the path, the last included, is bound to a metric.
C5_DirOverMetric ==
    [][ (last'.op = "RegisterDirectory"
            /\ \E k \in 1..Len(newPathSpec(last'.path)) :
                  IsMetricAt(NS, last'.d, Prefix(newPathSpec(last'.path), k)))
          => (last'.err = ErrPathInUse /\ last'.result = Nil) ]_vars

\* A RegisterDirectory whose path runs through a metric (not its last segment)
\* has returned ErrPathInUse.
C5_Witness ==
    /\ last.op = "RegisterDirectory"
    /\ last.err = ErrPathInUse
    /\ last.result = Nil
    /\ Len(newPathSpec(last.path)) = 2
    /\ IsMetricAt(NS, last.d, Prefix(newPathSpec(last.path), 1))

RECURSIVE AncestorsAreDirs(_)
\* The parent chain of listEntry e consists of directories.
AncestorsAreDirs(e) ==
    LET p == entries[e].parent
    IN p = Nil \/ (entries[p].Directory # Nil /\ AncestorsAreDirs(p))

\* C6 (N4): after a successful RegisterMetric every proper prefix of the path
\* resolves to a directory and GetMetric on the path returns a metric with the
\* given description and unit; the ancestors of every metric are directories.
C6_RegisteredMetric ==
    /\ (last.op = "RegisterMetric" /\ last.err = ErrNil) =>
          LET ps == newPathSpec(last.path)
              m == GetMetric(NS, last.d, last.path)
          IN /\ \A k \in 0..(Len(ps) - 1) :
                    getDirectory(NS, last.d, Prefix(ps, k)) # Nil
             /\ m # Nil
             /\ metrics[m].Description = last.description
             /\ metrics[m].Unit = last.unit
    /\ \A e \in 1..Len(entries) : entries[e].Metric # Nil => AncestorsAreDirs(e)

\* A successful RegisterMetric of a two-segment path that created the directory
\* above the metric.
C6_Witness ==
    /\ last.op = "RegisterMetric"
    /\ last.err = ErrNil
    /\ Len(newPathSpec(last.path)) = 2
    /\ Len(entries) = last.before + 2

RECURSIVE SumSeq(_)
SumSeq(q) == IF q = <<>> THEN 0 ELSE Head(q) + SumSeq(Tail(q))

BreakdownCounts(bdn) == [i \in 1..Len(bdn) |-> bdn[i].Count]

InAdd(t) ==
    pc[t] \in {"add_lock", "add_counts", "add_total", "add_minmax", "add_count",
               "add_unlock"}

\* C7: a Snapshot reports as count the number of Add calls that have returned
\* when it reads the distribution, which lies between the number returned when
\* it was called and the number called, and its breakdown counts add up to its
\* count; with no Add in progress the distribution's count and the sum of its
\* bucket counts equal the number of Add calls.
C7_NoAddLost ==
    /\ \A t \in Threads :
          pc[t] = "snap_runlock" =>
             /\ loc[t].snapshot.Count = addsReturned
             /\ loc[t].returnedAtCall <= loc[t].snapshot.Count
             /\ loc[t].snapshot.Count <= addsCalled
    /\ \A t \in Threads :
          pc[t] \in {"snap_runlock", "snap_returned"} =>
             SumSeq(BreakdownCounts(loc[t].snapshot.Breakdown)) = loc[t].snapshot.Count
    /\ (\A t \in Threads : ~InAdd(t)) =>
          (dist.count = addsCalled /\ SumSeq(dist.counts) = dist.count)

\* A Snapshot called before any Add returned has read a distribution to which
\* one Add was made, while the other thread is inside a further Add, waiting for
\* the lock.
C7_Witness ==
    \E t \in Threads, u \in Threads :
        /\ t # u
        /\ pc[t] = "snap_runlock"
        /\ loc[t].snapshot.Count = 1
        /\ loc[t].returnedAtCall = 0
        /\ pc[u] = "add_lock"

\* The bucket a value belongs to, by the bounds of the bucket.
InBucket(x, piece) ==
    /\ piece.First \/ x >= piece.Start
    /\ piece.Last \/ x < piece.End

SeqMin(q) == CHOOSE x \in {q[i] : i \in 1..Len(q)} : \A i \in 1..Len(q) : x <= q[i]

SeqMax(q) == CHOOSE x \in {q[i] : i \in 1..Len(q)} : \A i \in 1..Len(q) : x >= q[i]

\* What a snapshot reports of a distribution holding exactly the values of q.
SnapshotOfValues(q, snap) ==
    /\ snap.Count = Len(q)
    /\ \A i \in 1..Len(pieces) :
          /\ snap.Breakdown[i].bucketPiece = pieces[i]
          /\ snap.Breakdown[i].Count =
                Cardinality({k \in 1..Len(q) : InBucket(q[k], pieces[i])})
    /\ Len(snap.Breakdown) = Len(pieces)
    /\ IF q = <<>>
       THEN snap.Min = 0 /\ snap.Max = 0 /\ snap.Average.num = 0
       ELSE /\ snap.Min = SeqMin(q)
            /\ snap.Max = SeqMax(q)
            /\ snap.Average = Round(SumSeq(q), Len(q))

\* C8: the min, max, count, average and bucket counts of every Snapshot are
\* those of the distribution after a prefix of the Adds in the order in which
\* they held the lock, a prefix that holds every Add returned before the call.
C8_SnapshotAtomic ==
    \A t \in Threads :
        pc[t] \in {"snap_runlock", "snap_returned"} =>
           \E k \in loc[t].returnedAtCall..Len(committed) :
               SnapshotOfValues(SubSeq(committed, 1, k), loc[t].snapshot)

\* A Snapshot has returned the state after the first of two Adds of unequal
\* values that fall into different buckets.
C8_Witness ==
    \E t \in Threads :
        /\ pc[t] = "snap_returned"
        /\ loc[t].snapshot.Count = 1
        /\ Len(committed) = 2
        /\ committed[1] # committed[2]
        /\ findDistributionIndex(pieces, committed[1])
              # findDistributionIndex(pieces, committed[2])

\* A thread is inside a read of a child map made by a lookup or a listing.
MidLookupRead(t) == pc[t] \in {"gd_reading", "gb_reading", "ls_reading"}

\* C9: a read of a directory's child map by GetDirectory, GetMetric or List and
\* a write of the same map by a registration never overlap.
C9_RaceFree ==
    \A t \in Threads, u \in Threads :
        (t # u /\ MidWrite(t) /\ MidLookupRead(u)) => loc[t].cur # loc[u].cur

\* C10: of two RegisterMetric calls for the same path, made while the path was
\* unbound, exactly one returns nil and the other ErrPathInUse, and the metric
\* bound at the path is the one of the call that returned nil.
C10_Serialized ==
    \A t \in Threads, u \in Threads :
        (/\ t # u
         /\ pc[t] = "returned" /\ pc[u] = "returned"
         /\ loc[t].op = "RegisterMetric" /\ loc[u].op = "RegisterMetric"
         /\ loc[t].path = loc[u].path
         /\ loc[t].unboundAtCall /\ loc[u].unboundAtCall)
        => \/ /\ loc[t].err = ErrNil
              /\ loc[u].err = ErrPathInUse
              /\ getDirectoryOrMetric(NS, root, loc[t].path).metric = loc[t].metric
           \/ /\ loc[u].err = ErrNil
              /\ loc[t].err = ErrPathInUse
              /\ getDirectoryOrMetric(NS, root, loc[u].path).metric = loc[u].metric

\* The cut points e_1 < ... < e_k of a bucketer, from its buckets.
CutPointsOf(bucketerPieces) ==
    [i \in 1..(Len(bucketerPieces) - 1) |-> bucketerPieces[i].End]

\* The bucket of x, counted from 1: the first when x < e_1, the one after e_b
\* when e_b <= x < e_(b+1), the last when x >= e_k.
BucketOf(e, x) == Cardinality({i \in 1..Len(e) : e[i] <= x}) + 1

\* C11: Add(x) adds one to the count of the bucket b with e_b <= x < e_(b+1)
\* (the first bucket when x < e_1, the last when x >= e_k) and leaves the other
\* counts as they were; the binary search finds that bucket for every x.
C11_BucketIndex ==
    [][ /\ \A x \in Samples :
              findDistributionIndex(pieces, x) + 1 = BucketOf(CutPointsOf(pieces), x)
        /\ committed' # committed =>
              LET x == committed'[Len(committed')]
                  b == BucketOf(CutPointsOf(pieces), x)
              IN /\ Len(dist'.counts) = Len(dist.counts)
                 /\ \A i \in 1..Len(dist.counts) :
                       dist'.counts[i] = dist.counts[i] + (IF i = b THEN 1 ELSE 0) ]_vars

\* The value just added is the second cut point of a bucketer of four buckets,
\* and the third bucket now holds two values.
C11_Witness ==
    /\ Len(pieces) = 4
    /\ Len(committed) >= 2
    /\ committed[Len(committed)] = pieces[2].End
    /\ dist.counts[3] = 2
    /\ dist.counts[2] = 0

\* C12: after one or more Adds the min of the distribution and of its Snapshot
\* is the least value added and the max the greatest, in whatever order the
\* values came.
C12_MinMax ==
    /\ committed # <<>> =>
          (dist.min = SeqMin(committed) /\ dist.max = SeqMax(committed))
    /\ (last.op = "Snapshot" /\ committed # <<>>) =>
          /\ last.snapshot.Min = SeqMin(committed)
          /\ last.snapshot.Max = SeqMax(committed)
          /\ last.snapshot.Min <= last.snapshot.Max

\* A Snapshot of three values of which the first is neither the least nor the
\* greatest, the greatest coming last.
C12_Witness ==
    /\ last.op = "Snapshot"
    /\ Len(committed) = 3
    /\ committed[2] < committed[1]
    /\ committed[1] < committed[3]
    /\ last.snapshot.Max = committed[3]

\* C13: the median of every Snapshot of a non-empty distribution lies between
\* its min and its max, and is the sample itself when there is one sample.
C13_MedianInRange ==
    (last.op = "Snapshot" /\ last.snapshot.Count >= 1) =>
        /\ last.snapshot.Min * last.snapshot.Median.den <= last.snapshot.Median.num
        /\ last.snapshot.Median.num <= last.snapshot.Max * last.snapshot.Median.den
        /\ last.snapshot.Count = 1 =>
              last.snapshot.Median = [num |-> committed[1], den |-> 1]

RECURSIVE Under(_, _, _)
\* The listEntry e lies in the subtree of directory d.
Under(ns, e, d) ==
    LET p == ns.entries[e].parent
    IN \/ p = ns.dirs[d].enclosingListEntry
       \/ (p # Nil /\ Under(ns, p, d))

\* The metrics of the subtree of directory d.
MetricsUnder(ns, d) ==
    {ns.entries[e].Metric :
        e \in {x \in 1..Len(ns.entries) : ns.entries[x].Metric # Nil /\ Under(ns, x, d)}}

RECURSIVE RelNames(_, _, _)
\* The names that lead from directory d down to the listEntry e of its subtree.
RelNames(ns, e, d) ==
    IF ns.entries[e].parent = ns.dirs[d].enclosingListEntry
    THEN <<ns.entries[e].Name>>
    ELSE Append(RelNames(ns, ns.entries[e].parent, d), ns.entries[e].Name)

RECURSIVE SegLess(_, _)
\* p comes before q when the two are compared name by name.
SegLess(p, q) ==
    IF q = <<>> THEN FALSE
    ELSE IF p = <<>> THEN TRUE
    ELSE IF Head(p) = Head(q) THEN SegLess(Tail(p), Tail(q))
    ELSE StringLess(Head(p), Head(q))

\* The listEntry of a metric.
EntryOf(ns, m) == ns.metrics[m].enclosingListEntry

\* The traversal reported in `last` ran with no error from Collect.
NoCollectError(n) == last.failAt = 0 \/ last.failAt > n

\* C14: GetAllMetrics hands every metric of the subtree to Collect once, and
\* nothing else, a metric coming before another exactly when its names from the
\* directory come first name by name (depth first, the children of a directory
\* in ascending order of name), provided no Collect returns an error; List
\* returns the children of the directory in ascending order of name.
C14_PreOrder ==
    /\ (last.op = "GetAllMetrics"
           /\ NoCollectError(Cardinality(MetricsUnder(NS, last.d)))) =>
          /\ last.err = ErrNil
          /\ {last.got[i] : i \in 1..Len(last.got)} = MetricsUnder(NS, last.d)
          /\ Len(last.got) = Cardinality(MetricsUnder(NS, last.d))
          /\ \A i \in 1..Len(last.got) : \A j \in (i + 1)..Len(last.got) :
                SegLess(RelNames(NS, EntryOf(NS, last.got[i]), last.d),
                        RelNames(NS, EntryOf(NS, last.got[j]), last.d))
    /\ last.op = "List" =>
          /\ {last.result[i] : i \in 1..Len(last.result)}
                = {e \in 1..Len(entries) :
                      entries[e].parent = dirs[last.d].enclosingListEntry}
          /\ \A i \in 1..(Len(last.result) - 1) :
                StringLess(entries[last.result[i]].Name,
                           entries[last.result[i + 1]].Name)

\* A traversal of the root has delivered a metric that lies in a directory and
\* then a metric of the root itself.
C14_Witness ==
    /\ last.op = "GetAllMetrics"
    /\ last.d = root
    /\ last.failAt = 0
    /\ Len(last.got) = 2
    /\ entries[EntryOf(NS, last.got[1])].parent # Nil
    /\ entries[EntryOf(NS, last.got[2])].parent = Nil

\* The delivered metrics are those of the subtree, and their absolute paths
\* ascend as strings.
PathsAscend ==
    /\ {last.got[i] : i \in 1..Len(last.got)} = MetricsUnder(NS, last.d)
    /\ \A i \in 1..Len(last.got) : \A j \in (i + 1)..Len(last.got) :
          StringLess(MetricAbsPath(NS, last.got[i]), MetricAbsPath(NS, last.got[j]))

\* C15 as stated: the absolute paths of the metrics GetAllMetrics delivers are
\* the absolute paths of the metrics of the subtree in ascending order.
C15_AsStated ==
    (last.op = "GetAllMetrics"
        /\ NoCollectError(Cardinality(MetricsUnder(NS, last.d)))) => PathsAscend

\* No name in the subtree of d holds a character that sorts below "/".
NoCharBelowSlash(ns, d) ==
    \A e \in 1..Len(ns.entries) :
        Under(ns, e, d) =>
            \A k \in 1..Len(ns.entries[e].Name) :
                CharCode(ns.entries[e].Name[k]) > CharCode("/")

\* C15 amended: the absolute paths of the metrics GetAllMetrics delivers are the
\* absolute paths of the metrics of the subtree in ascending order of the
\* strings, whenever no name in the subtree holds a character that sorts below
\* "/" (a blank, "-", "."); with such a name the order is that of the names
\* taken one by one, which is not the order of the strings.
C15_SortedPaths ==
    (last.op = "GetAllMetrics"
        /\ NoCollectError(Cardinality(MetricsUnder(NS, last.d)))
        /\ NoCharBelowSlash(NS, last.d)) => PathsAscend

\* A traversal of a directory below the root has delivered its two metrics, no
\* name holding a character below "/".
C15_Witness ==
    /\ last.op = "GetAllMetrics"
    /\ last.d # root
    /\ last.failAt = 0
    /\ Len(last.got) = 2
    /\ NoCharBelowSlash(NS, last.d)

\* The number of metrics the traversal reported in `last` has to deliver.
ToDeliver ==
    IF last.op = "GetAllMetrics"
    THEN Cardinality(MetricsUnder(NS, last.d))
    ELSE LET ps == newPathSpec(last.path)
         IN IF IsMetricAt(NS, last.d, ps) THEN 1
            ELSE IF DirAt(NS, last.d, ps) # Nil
            THEN Cardinality(MetricsUnder(NS, DirAt(NS, last.d, ps)))
            ELSE 0

\* C16: when a Collect returns an error, GetAllMetrics and GetAllMetricsByPath
\* make no further call of Collect, at whatever depth the error came, and
\* return that error; when none does they return nil.
C16_AbortOnError ==
    last.op \in {"GetAllMetrics", "GetAllMetricsByPath"} =>
        IF NoCollectError(ToDeliver)
        THEN last.err = ErrNil /\ Len(last.got) = ToDeliver
        ELSE last.err = ErrSink /\ Len(last.got) = last.failAt

\* A traversal of the root whose first Collect, for a metric inside a directory,
\* returned an error, with a further metric left undelivered.
C16_Witness ==
    /\ last.op = "GetAllMetrics"
    /\ last.d = root
    /\ last.failAt = 1
    /\ last.err = ErrSink
    /\ Len(last.got) = 1
    /\ entries[EntryOf(NS, last.got[1])].parent # Nil
    /\ Len(metrics) = 2

\* C17: GetAllMetricsByPath calls Collect once, with the metric, when the path
\* resolves to a metric; does what GetAllMetrics does on the directory when it
\* resolves to a directory; and calls nothing and returns nil otherwise.
C17_ByPath ==
    last.op = "GetAllMetricsByPath" =>
        LET ps == newPathSpec(last.path)
            c == [failAt |-> last.failAt, got |-> <<>>]
        IN IF IsMetricAt(NS, last.d, ps)
           THEN /\ last.got = <<entries[Bound(NS, last.d, ps)].Metric>>
                /\ last.err = IF last.failAt = 1 THEN ErrSink ELSE ErrNil
           ELSE IF DirAt(NS, last.d, ps) # Nil
           THEN /\ last.got = GetAllMetrics(NS, DirAt(NS, last.d, ps), c).collector.got
                /\ last.err = GetAllMetrics(NS, DirAt(NS, last.d, ps), c).err
           ELSE last.got = <<>> /\ last.err = ErrNil

\* A GetAllMetricsByPath on a path of two names that resolves to a metric has
\* delivered that one metric.
C17_Witness ==
    /\ last.op = "GetAllMetricsByPath"
    /\ Len(newPathSpec(last.path)) = 2
    /\ IsMetricAt(NS, last.d, newPathSpec(last.path))
    /\ Len(last.got) = 1
    /\ last.err = ErrNil

\* The metric the segments ps resolve to from directory d, or Nil.
MetricAt(ns, d, ps) ==
    IF IsMetricAt(ns, d, ps) THEN ns.entries[Bound(ns, d, ps)].Metric ELSE Nil

\* C18: GetDirectory returns the directory the segments of the path lead to
\* through directories, GetMetric the metric the last segment is bound to in the
\* directory the segments before it lead to, and both return nil on a miss and
\* on a path of the other role; GetDirectoryOrMetric returns the one or the
\* other, never both.
C18_Lookup ==
    /\ last.op = "GetDirectory" =>
          last.result = DirAt(NS, last.d, newPathSpec(last.path))
    /\ last.op = "GetMetric" =>
          last.result = MetricAt(NS, last.d, newPathSpec(last.path))
    /\ last.op = "GetDirectoryOrMetric" =>
          /\ last.dir = DirAt(NS, last.d, newPathSpec(last.path))
          /\ last.metric = MetricAt(NS, last.d, newPathSpec(last.path))
          /\ last.dir = Nil \/ last.metric = Nil

\* A GetMetric on the path of a directory, and a GetDirectory on a path that
\* runs through a metric, have returned nil.
C18_Witness ==
    \/ /\ last.op = "GetMetric"
       /\ last.result = Nil
       /\ Len(newPathSpec(last.path)) = 2
       /\ DirAt(NS, last.d, newPathSpec(last.path)) # Nil
    \/ /\ last.op = "GetDirectory"
       /\ last.result = Nil
       /\ Len(newPathSpec(last.path)) = 2
       /\ IsMetricAt(NS, last.d, Prefix(newPathSpec(last.path), 1))

ReadOps ==
    {"List", "GetDirectory", "GetMetric", "GetDirectoryOrMetric", "GetAllMetrics",
     "GetAllMetricsByPath"}

\* C19: GetDirectory, GetMetric, GetDirectoryOrMetric, List, GetAllMetrics and
\* GetAllMetricsByPath leave every listEntry, directory and metric as it was:
\* nothing is created, removed or rebound.
C19_ReadOnly ==
    [][ last'.op \in ReadOps => NS' = NS ]_vars

\* A GetDirectory on a path of two names of which the first is unbound has
\* returned nil, in a namespace that holds entries.
C19_Witness ==
    /\ last.op = "GetDirectory"
    /\ last.result = Nil
    /\ Len(newPathSpec(last.path)) = 2
    /\ Bound(NS, last.d, Prefix(newPathSpec(last.path), 1)) = Nil
    /\ Len(entries) = MaxNodes

RECURSIVE SlashBefore(_)
\* "/" put before every name of ps.
SlashBefore(ps) ==
    IF ps = <<>> THEN <<>> ELSE <<"/">> \o Head(ps) \o SlashBefore(Tail(ps))

\* The absolute path of the names s1..sn from the root: "/s1/.../sn", and "/"
\* for the root.
Slashed(ps) == IF ps = <<>> THEN <<"/">> ELSE SlashBefore(ps)

\* C20: the AbsPath of a metric or directory whose names from the root are
\* s1..sn is "/s1/.../sn", GetMetric (GetDirectory) of the root on that string
\* returns the metric (directory) itself, and the AbsPath of the root is "/";
\* stated of every entry of the namespace between two calls, and of the result
\* of every AbsPath call.
C20_AbsPathRoundTrip ==
    /\ DirectoryAbsPath(NS, root) = <<"/">>
    /\ \A e \in {x \in 1..Len(entries) : Idle} :
          /\ absPath(NS, e) = Slashed(RelNames(NS, e, root))
          /\ Bound(NS, root, RelNames(NS, e, root)) = e
          /\ entries[e].Metric # Nil =>
                /\ EntryOf(NS, entries[e].Metric) = e
                /\ GetMetric(NS, root, MetricAbsPath(NS, entries[e].Metric))
                      = entries[e].Metric
          /\ entries[e].Directory # Nil =>
                /\ dirs[entries[e].Directory].enclosingListEntry = e
                /\ GetDirectory(NS, root, DirectoryAbsPath(NS, entries[e].Directory))
                      = entries[e].Directory
    /\ last.op = "MetricAbsPath" =>
          GetMetric(NS, root, last.result) = last.metric
    /\ last.op = "DirectoryAbsPath" =>
          GetDirectory(NS, root, last.result) = last.d

\* The AbsPath of a metric that lies two directories below the root has been
\* taken.
C20_Witness ==
    /\ last.op = "MetricAbsPath"
    /\ Len(RelNames(NS, EntryOf(NS, last.metric), root)) = 3
    /\ last.result = Slashed(RelNames(NS, EntryOf(NS, last.metric), root))

RECURSIVE SquashSlashes(_)
\* s with every "/" that follows a "/" taken out.
SquashSlashes(s) ==
    IF Len(s) < 2 THEN s
    ELSE IF s[1] = "/" /\ s[2] = "/" THEN SquashSlashes(Tail(s))
    ELSE <<s[1]>> \o SquashSlashes(Tail(s))

\* s with repeated slashes made one and the leading and the trailing slash
\* taken off: two strings differ only by such slashes when this is the same.
StripSlashes(s) ==
    LET q == SquashSlashes(s)
        a == IF q # <<>> /\ q[1] = "/" THEN Tail(q) ELSE q
    IN IF a # <<>> /\ a[Len(a)] = "/" THEN SubSeq(a, 1, Len(a) - 1) ELSE a

\* C21: newPathSpec returns, for every string, segments that hold no slash and
\* at least one character that is not a blank, and the same segments for two
\* strings that differ only by leading, trailing or repeated slashes; after a
\* registration on a path has succeeded, every lookup in the same directory on
\* a string that differs from it only by such slashes finds the entry it made,
\* registering the directory again on such a string returns the same directory
\* and changes nothing, and the entry lies under the directory the call was
\* made on whether or not the string starts with a slash.
C21_SlashesIgnored ==
    /\ last.op = "newPathSpec" =>
          /\ \A i \in 1..Len(last.result) :
                /\ \A k \in 1..Len(last.result[i]) : last.result[i][k] # "/"
                /\ \E k \in 1..Len(last.result[i]) : last.result[i][k] # " "
          /\ \A t \in AllPathStrings :
                StripSlashes(t) = StripSlashes(last.path) =>
                    newPathSpec(t) = last.result
    /\ (last.op \in {"RegisterMetric", "RegisterDirectory"} /\ last.err = ErrNil) =>
          LET names == newPathSpec(last.path)
              e == IF names = <<>> THEN Nil ELSE Bound(NS, last.d, names)
          IN /\ names = <<>> => last.result = last.d
             /\ names # <<>> =>
                   /\ e # Nil
                   /\ RelNames(NS, e, last.d) = newPathSpec(StripSlashes(last.path))
             /\ \A t \in {x \in PathStrings :
                             StripSlashes(x) = StripSlashes(last.path)} :
                   /\ newPathSpec(t) = newPathSpec(last.path)
                   /\ last.op = "RegisterMetric" =>
                         /\ GetMetric(NS, last.d, t) = entries[e].Metric
                         /\ GetMetric(NS, last.d, t) # Nil
                   /\ last.op = "RegisterDirectory" =>
                         /\ GetDirectory(NS, last.d, t) = last.result
                         /\ registerDirectory(NS, last.d, newPathSpec(t))
                               = [ns |-> NS, result |-> last.result, err |-> ErrNil]

\* A metric has been registered on a directory other than the root with a
\* string that starts and ends with a slash, and it lies in that directory.
C21_Witness ==
    /\ last.op = "RegisterMetric"
    /\ last.err = ErrNil
    /\ last.d # root
    /\ last.path[1] = "/"
    /\ last.path[Len(last.path)] = "/"
    /\ entries[Len(entries)].parent = dirs[last.d].enclosingListEntry
    /\ entries[Len(entries)].Metric # Nil

\* The call reported in `last` built a bucketer.
BuiltBucketer ==
    /\ last.op \in {"NewExponentialBucketer", "NewLinearBucketer",
                    "NewArbitraryBucketer"}
    /\ last.built.result # NoBucketer

\* C22: a bucketer built from k >= 1 cut points has exactly k + 1 buckets, the
\* first and no other flagged First, the last and no other flagged Last, and
\* every bucket but the first starts where the bucket before it ends (at the
\* cut point between them).
C22_BucketerShape ==
    BuiltBucketer =>
        LET p == last.built.result
            k == Len(last.built.stream)
        IN /\ k >= 1
           /\ Len(p) = k + 1
           /\ \A i \in 1..Len(p) :
                 /\ p[i] # NilPiece
                 /\ p[i].First = (i = 1)
                 /\ p[i].Last = (i = Len(p))
                 /\ i > 1 => (p[i].Start = p[i - 1].End /\ p[i].Start = last.built.stream[i - 1])

\* A bucketer of three cut points has been built: four buckets.
C22_Witness ==
    /\ BuiltBucketer
    /\ last.op = "NewArbitraryBucketer"
    /\ Len(last.endpoints) = 3
    /\ Len(last.built.result) = 4

RECURSIVE Power(_, _)
\* b to the power e.
Power(b, e) == IF e = 0 THEN 1 ELSE b * Power(b, e - 1)

C23_EmptySnapshot ==
    (last.op = "Snapshot" /\ committed = <<>>) =>
        /\ last.snapshot.Count = 0
        /\ last.snapshot.Min = 0
        /\ last.snapshot.Max = 0
        /\ last.snapshot.Average = [num |-> 0, den |-> 1]
        /\ last.snapshot.Median = [num |-> 0, den |-> 1]
        /\ Len(last.snapshot.Breakdown) = Len(pieces)
        /\ \A i \in 1..Len(pieces) :
              /\ last.snapshot.Breakdown[i].bucketPiece = pieces[i]
              /\ last.snapshot.Breakdown[i].Count = 0

\* The Snapshot of an empty distribution over a bucketer of three cut points has
\* been taken.
C23_Witness ==
    /\ last.op = "Snapshot"
    /\ committed = <<>>
    /\ dist.count = 0
    /\ Len(pieces) = 4
    /\ Len(last.snapshot.Breakdown) = 4

\* The typed read of each kind, and the kind each typed read is of.
TypedReads ==
    {"AsBool", "AsInt", "AsUint", "AsFloat", "AsString", "AsTime",
     "AsDistribution"}

KindRead(op) ==
    CASE op = "AsBool" -> "Bool" [] op = "AsInt" -> "Int" [] op = "AsUint" -> "Uint"
      [] op = "AsFloat" -> "Float" [] op = "AsString" -> "String"
      [] op = "AsTime" -> "Time" [] op = "AsDistribution" -> "Dist"

\* The value the read reported in `last` was made on.
ValueRead == metrics[last.metric].Value

\* A value on a variable, or on a func without parameters, that is not a
\* distribution and not a pointer to a time.
PlainValue(v) ==
    /\ v.valType \in {"Bool", "Int", "Uint", "Float", "String", "Time"}
    /\ ~v.isValAPointer
    /\ v.val.numIn = 0

\* The text of the scalar x of the given kind.
TextOf(kind, x) ==
    CASE kind = "Bool" -> IF x THEN <<"t", "r", "u", "e">>
                          ELSE <<"f", "a", "l", "s", "e">>
      [] kind \in {"Int", "Uint", "Float"} -> FormatInt(x)
      [] kind = "String" -> <<"\"">> \o x \o <<"\"">>
      [] kind = "Time" -> TimeText(x)

\* C24: a typed read of the value of a metric registered on a pointer to a
\* variable returns what the variable holds when the read is made, whatever it
\* held when the metric was registered and with no call to the registry in
\* between, and so do AsRPCValue and (as text) AsTextString; a read of a value
\* registered on a func returns what the func, called at the read, returns.
C24_LiveReads ==
    (last.op \in TypedReads \cup {"AsRPCValue", "AsTextString"}
        /\ PlainValue(ValueRead)) =>
        LET v == ValueRead
            now == store[v.val.var]
        IN /\ (last.op \in TypedReads /\ KindRead(last.op) = v.valType) =>
                 last.ret = Returned(now)
           /\ (last.op = "AsRPCValue" /\ v.valType # "Time") =>
                 /\ ~last.ret.panic
                 /\ last.ret.result.Kind = v.valType
                 /\ last.ret.result.value = now
           /\ last.op = "AsRPCValue" /\ v.valType = "Time" =>
                 /\ ~last.ret.panic
                 /\ last.ret.result.value = TimeText(now)
           /\ last.op = "AsTextString" =>
                 last.ret = Returned(TextOf(v.valType, now))

\* AsInt on a metric registered on a pointer to the int64 variable has returned
\* MaxWrite, which the application wrote to the variable after the registration.
C24_Witness ==
    /\ last.op = "AsInt"
    /\ ~ValueRead.isfunc
    /\ ValueRead.valType = "Int"
    /\ last.ret = Returned(MaxWrite)
    /\ store.i = MaxWrite
    /\ InitStore.i # MaxWrite

\* A value of type Time on a pointer to a time, as a pointer to the pointer or
\* as a func without parameters that returns it.
OnTimeHandle(v) == v.valType = "Time" /\ v.isValAPointer /\ v.val.numIn = 0

\* C25: AsTime on a value built on a pointer to a time never panics, and at
\* each read returns the zero time when the pointer is nil at that moment and
\* the time it points to otherwise, so that a pointer that is nil when the
\* metric is registered and set afterwards is read as the zero time first and
\* as the new time then; the text of the zero time is "0.000000000".
C25_TimeHandle ==
    (last.op \in {"AsTime", "AsTextString"} /\ OnTimeHandle(ValueRead)) =>
        LET now == store[ValueRead.val.var]
            t == IF now = <<>> THEN ZeroTime ELSE now[1]
        IN /\ ~last.ret.panic
           /\ last.op = "AsTime" => last.ret.result = t
           /\ last.op = "AsTextString" => last.ret.result = TimeText(t)
           /\ (last.op = "AsTextString" /\ now = <<>>) =>
                 last.ret.result =
                     <<"0", ".", "0", "0", "0", "0", "0", "0", "0", "0", "0">>

\* AsTime on a metric registered on the pointer, which was nil then, has
\* returned the time the pointer was set to afterwards.
C25_Witness ==
    /\ last.op = "AsTime"
    /\ OnTimeHandle(ValueRead)
    /\ ~ValueRead.isfunc
    /\ InitStore.tp = <<>>
    /\ store.tp = <<TimeOf(MaxWrite)>>
    /\ last.ret = Returned(TimeOf(MaxWrite))

\* C26: a typed read panics exactly when the type of the value is not the one
\* read, for every pair of types: it panics on every other type, and never on
\* its own; AsTextString and AsHtmlString panic on a value of type Dist.
C26_PanicsOnMismatch ==
    /\ last.op \in TypedReads =>
          (last.ret.panic <=> ValueRead.valType # KindRead(last.op))
    /\ (last.op \in {"AsTextString", "AsHtmlString"} /\ ValueRead.valType = "Dist") =>
          last.ret.panic

\* Every value that was added lies in one bucket.
OneBucket ==
    \A j, k \in 1..Len(committed) :
        findDistributionIndex(pieces, committed[j])
            = findDistributionIndex(pieces, committed[k])

\* C27: when the n >= 2 values added all lie in one bucket, the first, the
\* last or one in between, the median of the snapshot is the midpoint of the
\* smallest and the largest of them: (min + max) / 2 as float division gives it,
\* which is the midpoint itself whenever that is a float.
C27_SingleBucketMedian ==
    (last.op = "Snapshot" /\ Len(committed) >= 2 /\ OneBucket) =>
        /\ last.snapshot.Median = Round(SeqMin(committed) + SeqMax(committed), 2)
        /\ (SeqMin(committed) + SeqMax(committed)) % 2 = 0 =>
              last.snapshot.Median =
                  [num |-> (SeqMin(committed) + SeqMax(committed)) \div 2, den |-> 1]

\* A snapshot has been taken of three values or more, not all the same, that
\* all lie in one bucket which is neither the first nor the last.
C27_Witness ==
    /\ last.op = "Snapshot"
    /\ Len(committed) >= 3
    /\ OneBucket
    /\ findDistributionIndex(pieces, committed[1]) \notin {0, Len(pieces) - 1}
    /\ SeqMin(committed) < SeqMax(committed)
    /\ last.snapshot.Median = Round(SeqMin(committed) + SeqMax(committed), 2)

\* The directory whose contents hold the listEntry e.
Holder(ns, e) ==
    IF ns.entries[e].parent = Nil THEN root
    ELSE ns.entries[ns.entries[e].parent].Directory

\* The traversal of directory d had entered directory x (taken its List) when
\* it handed the metric m to Collect: x is d, or x lies in the subtree of d and
\* comes before m in the order of the traversal.
EnteredBefore(ns, d, x, m) ==
    \/ x = d
    \/ /\ ns.dirs[x].enclosingListEntry # Nil
       /\ Under(ns, ns.dirs[x].enclosingListEntry, d)
       /\ SegLess(RelNames(ns, ns.dirs[x].enclosingListEntry, d),
                  RelNames(ns, EntryOf(ns, m), d))

\* The directory x is d or lies in the subtree of d.
InSubtree(ns, d, x) ==
    \/ x = d
    \/ /\ ns.dirs[x].enclosingListEntry # Nil
       /\ Under(ns, ns.dirs[x].enclosingListEntry, d)

\* The sink of the traversal reported in `last` has registered during its
\* regAt-th Collect and that has made new entries.
SinkRegistered ==
    /\ last.op = "GetAllMetricsRegistering"
    /\ last.regAt >= 1
    /\ Len(last.got) >= last.regAt
    /\ Len(entries) > last.before

\* C28: what a traversal delivers of a directory is what the directory held
\* when the traversal entered it. Every metric that was in the subtree when
\* GetAllMetrics was called is handed to Collect, once, unless an error ends
\* the traversal; an entry that the sink registers from inside Collect into a
\* directory the traversal has already entered is not delivered, nor is
\* anything below it, and one registered into a directory of the subtree that
\* the traversal has yet to enter is.
C28_MembershipAtEntry ==
    last.op = "GetAllMetricsRegistering" =>
        LET old == {m \in MetricsUnder(NS, last.d) : m <= last.metricsBefore}
            got == {last.got[i] : i \in 1..Len(last.got)}
            new == {m \in 1..Len(metrics) : m > last.metricsBefore}
        IN /\ Cardinality(got) = Len(last.got)
           /\ last.err = ErrNil => old \subseteq got
           /\ got \subseteq old \cup new
           /\ SinkRegistered =>
                 LET x == Holder(NS, last.before + 1)
                     m == last.got[last.regAt]
                 IN /\ EnteredBefore(NS, last.d, x, m) => got \cap new = {}
                    /\ (last.err = ErrNil /\ InSubtree(NS, last.d, x)
                           /\ ~EnteredBefore(NS, last.d, x, m)) => new \subseteq got
           /\ ~SinkRegistered => got \cap new = {}

\* The traversal of the root has handed a metric of the root to a sink that
\* has then registered, in the root, a metric whose name comes after it, and
\* the traversal has ended without delivering the new metric.
C28_Witness ==
    /\ SinkRegistered
    /\ last.d = root
    /\ last.err = ErrNil
    /\ Len(metrics) > last.metricsBefore
    /\ entries[EntryOf(NS, Len(metrics))].parent = Nil
    /\ entries[EntryOf(NS, last.got[last.regAt])].parent = Nil
    /\ StringLess(entries[EntryOf(NS, last.got[last.regAt])].Name,
                  entries[EntryOf(NS, Len(metrics))].Name)
    /\ \A i \in 1..Len(last.got) : last.got[i] # Len(metrics)


\* C30: a registration that returns ErrPathInUse leaves the namespace exactly as
\* it was: the step of a RegisterMetric or RegisterDirectory that comes back
\* with ErrPathInUse changes no entry, no directory (none created, none given a
\* new binding) and no metric, and RegisterDirectory hands back no directory.
C30_FailureChangesNothing ==
    [][(/\ last'.op \in {"RegisterMetric", "RegisterDirectory"}
        /\ last'.err = ErrPathInUse)
       => /\ entries' = entries
          /\ dirs' = dirs
          /\ metrics' = metrics
          /\ last'.result = Nil]_vars

\* RegisterMetric with a path of two names has failed with ErrPathInUse past a
\* directory that was there: the base name was bound in it.
C30_Witness ==
    /\ last.op = "RegisterMetric"
    /\ last.err = ErrPathInUse
    /\ Len(newPathSpec(last.path)) = 2
    /\ MapGet(dirs[last.d].contents, newPathSpec(last.path)[1]) # Nil
    /\ entries[MapGet(dirs[last.d].contents, newPathSpec(last.path)[1])].Directory # Nil
    /\ Len(entries) = last.before


\* C31: when RegisterMetric panics because the source is of an unsupported
\* shape, the namespace is left exactly as it was before the call: the step of
\* a RegisterMetric that ends in the panic of newValue changes no entry, no
\* directory (no intermediate directory of the path is created) and no metric.
C31_PanicChangesNothing ==
    [][(/\ last'.op = "RegisterMetric"
        /\ last'.err = Panic)
       => /\ entries' = entries
          /\ dirs' = dirs
          /\ metrics' = metrics]_vars


\* C32: in every distribution state with count >= 2 that Add calls reach, the
\* bucket walk of the median (valueIndexToPiece with index (count - 1) / 2)
\* stops at a bucket index inside the counts vector, the count of that bucket
\* is not zero, and 0 <= frac < 1; and the median a Snapshot of such a state
\* reports is the interpolation at that bucket, not the outcome of a walk past
\* the end.
C32_WalkStaysInside ==
    dist.count >= 2 =>
        LET r == valueIndexToPiece(dist.counts, dist.count - 1)
        IN /\ r.ok
           /\ r.pieceIdx >= 0
           /\ r.pieceIdx < Len(dist.counts)
           /\ dist.counts[r.pieceIdx + 1] # 0
           /\ r.frac.num >= 0
           /\ r.frac.num < r.frac.den
           /\ last.op = "Snapshot" => last.snapshot.Median.den # 0

\* A Snapshot has been taken of a distribution whose first bucket is empty and
\* whose median lies in the last of four buckets, past an occupied bucket and
\* an empty one, at a fraction above 0.
C32_Witness ==
    /\ last.op = "Snapshot"
    /\ dist.count >= 2
    /\ Len(dist.counts) = 4
    /\ dist.counts[1] = 0
    /\ dist.counts[2] # 0
    /\ dist.counts[3] = 0
    /\ valueIndexToPiece(dist.counts, dist.count - 1).pieceIdx = 3
    /\ valueIndexToPiece(dist.counts, dist.count - 1).frac.num > 0

====
